---- MODULE Spec2Model ----
(***************************************************************************)
(* A model of the OKX scalping bot: the candle-push signal path of         *)
(* src/strategy.js (processCandle .. emitSignal) fed by the candle branch  *)
(* of the WebSocket message handler, and the reconnecting connector of     *)
(* src/okx-client.js.                                                      *)
(*                                                                         *)
(* The indicator library ta.js is not part of the repository.  What it     *)
(* returns for a call (a number, or an exception) is an input of the bar   *)
(* on which the call is made; everything the repository computes from the  *)
(* returned numbers is computed here as the code computes it.              *)
(***************************************************************************)
EXTENDS Integers, Sequences, FiniteSets, TLC

(***************************************************************************)
(* Program constants (src/config.js).                                      *)
(***************************************************************************)
EMA_SHORT_PERIOD == 9
EMA_LONG_PERIOD == 21
TLBB_FRACTALS_PERIOD == 15
BB_LENGTH == 20
BB_DEVIATION == 2
ST_PERIOD == 10
ST_MULTIPLIER == 3
MAX_OHLC_HISTORY == 500
MAX_RECONNECT_ATTEMPTS == 10
\* config.TIMEFRAME = "4h", in ms.
CANDLE_TIMEFRAME_MS == 4 * 60 * 60 * 1000
\* The delay of the exit timer of gracefulShutdown, in ms.
SHUTDOWN_EXIT_DELAY == 1000
TRADE_COOLDOWN == 60000
MAX_PRICE_HISTORY == 1000
\* config.STOP_LOSS_PERCENTAGE = 1.5 as a fraction, config.TAKE_PROFIT_PERCENTAGE.
STOP_LOSS_PERCENTAGE_NUM == 3
STOP_LOSS_PERCENTAGE_DEN == 2
TAKE_PROFIT_PERCENTAGE == 3
\* CONFIG of the tick-aggregation module (strategy.js 374-391).
emaShortPeriod == 9
emaLongPeriod == 21
tlbbFractalsPeriod == 15
bbLength == 20
bbDeviation == 2
stPeriod == 10
stMultiplier == 3
INITIAL_RECONNECT_DELAY == 1000
\* RECONNECT_MULTIPLIER is 1.5, kept as the fraction 3/2.
RECONNECT_MULTIPLIER_NUM == 3
RECONNECT_MULTIPLIER_DEN == 2

(***************************************************************************)
(* Bounds of the model.                                                    *)
(***************************************************************************)
\* Bars accepted while the history is shorter than this are fed from a
\* single well-formed shape (the history needs 21 bars before a signal).
WarmBars == 20
\* No frame is delivered once the history holds this many bars (EMA
\* strategy); fewer under the Combined strategy, when a listener may throw,
\* and when the feed may deliver malformed frames.
MaxBars == 25
MaxCombinedBars == 23
MaxFaultBars == 23
MaxPriceTicks == 1
\* Signals published in a run of the strategy with the order handler.
MaxPublished == 3
MaxMalformedBars == 22
\* Malformed candle frames accepted in one run.
MaxMalformed == 1
\* Bars received in a run of the startup sequence.
MaxStartupBars == 21
\* The lengths of the histories the indicators are called on.
MinProbeBars == 9
MaxProbeBars == 12
\* placeOrder is called with last prices 0.001..MaxOrderPrice / 1000 and with
\* sizes 1..MaxOrderSize.
MaxOrderPrice == 20
MaxOrderSize == 2
\* The lengths of the histories calculateTrendLineSignal is called on.
MinWindowBars == 14
MaxWindowBars == 16
\* The other maxAttempts the connector is configured with (the value of the
\* backoff scenario), beside MAX_RECONNECT_ATTEMPTS.
ScenarioMaxAttempts == 3
\* Reconnects scheduled without a confirmed subscription in between.
MaxUnsubscribedReconnects == 12
\* Ping intervals alive at once, and pings sent without a pong.
MaxPingIntervals == 2
MaxUnackedPings == 2
\* The order handler is followed for this many cooldown periods.
MaxCooldowns == 3
\* Bars handed to processStrategy while fewer than this are fed one tick per
\* bar at MinPrice; no tick is delivered once MaxTickBars were handed over.
WarmTickBars == 15
MaxTickBars == 18
\* The bounded histories are tried with capacities 1..MaxCapacity, elements
\* 1..MaxItem and up to MaxInserts insertions.
MaxCapacity == 3
MaxItem == 2
MaxInserts == 5
\* Closing prices are 1..MaxPrice; every bar spans MinPrice..MaxPrice.
MinPrice == 1
MaxPrice == 3
\* Values the library may return: an SMA in 1..MaxPrice, a standard deviation
\* in 0..MaxStdev, an ATR in 0..MaxAtr, an EMA in 1..MaxEma.
MaxStdev == 1
MaxAtr == 1
MaxEma == 2
\* The volume field of a ticker update is in 1..MaxTickVolume.
MaxTickVolume == 2

(***************************************************************************)
(* JavaScript values.                                                      *)
(***************************************************************************)
\* parseInt / parseFloat of a missing or non-numeric field.
NaN == 0 - 999999
\* A frame field that is missing (undefined).
Absent == 0 - 999998
\* A frame whose text JSON.parse rejects.
Undecodable == 0 - 999997

\* 2 * x on JavaScript numbers.
Twice(x) == IF x = NaN THEN NaN ELSE 2 * x

Max2(a, b) == IF a >= b THEN a ELSE b

\* Math.max over the four lookbacks (strategy.js 212-217).
MinHistory ==
  Max2(Max2(EMA_LONG_PERIOD, BB_LENGTH), Max2(ST_PERIOD, TLBB_FRACTALS_PERIOD))

\* a <= b and a < b, a > b on JavaScript numbers: false when either is NaN.
JsLeq(a, b) == a # NaN /\ b # NaN /\ a <= b
JsLt(a, b) == a # NaN /\ b # NaN /\ a < b
JsGt(a, b) == a # NaN /\ b # NaN /\ a > b

\* parseInt(field) and parseFloat(field) of a frame field: a numeric string is
\* its value, anything else is NaN.
ParseNumber(field) == IF field = Absent THEN NaN ELSE field

VARIABLES
  strategy,             \* config.STRATEGY, selected once at startup
  throwingConsumer,     \* a "signal" listener that throws is registered
  malformedFrames,      \* the feed may deliver candle frames with missing fields
  partialUpdates,       \* the feed may deliver updates of the bar in progress
  priceHistory,         \* strategy.js: let priceHistory (the prices of the ticks)
  ohlcHistory,          \* strategy.js: let ohlcHistory
  lastCandleTimestamp,  \* strategy.js: let lastCandleTimestamp
  inPosition,           \* strategy.js: let inPosition
  positionType,         \* strategy.js: let positionType ("null" | "long" | "short")
  mdSignals,            \* signals delivered by marketDataEmitter.emit("signal")
  sigSignals,           \* signals delivered by signalEmitter.emit("signal")
  emaLast,              \* the last elements ta.ema returned on the bar before
  lastCross,            \* direction of the last crossover of that EMA series
  bar                   \* what the last candle event did (observation only)

strategyVars ==
  <<strategy, throwingConsumer, malformedFrames, partialUpdates, priceHistory,
    ohlcHistory, lastCandleTimestamp, inPosition, positionType, mdSignals, sigSignals, emaLast,
    lastCross, bar>>

VARIABLES
  maxAttempts,          \* config.MAX_RECONNECT_ATTEMPTS of this run
  reconnectAttempts,    \* okx-client.js: let reconnectAttempts
  ws,                   \* readyState of the current socket ("none" before connect)
  timer,                \* the pending reconnect timer: [pending, delay]
  subscribed,           \* channels whose subscription the exchange has confirmed
  exitCode,             \* "running", or the code process.exit was called with ("1")
  delays,               \* delays scheduled since the last connection was opened
  unsubscribedReconnects, \* reconnects scheduled since the last confirmed subscription
  shutdownRequested,    \* gracefulShutdown has run
  exitTimer,            \* the exit timer of gracefulShutdown is pending
  pingIntervals,        \* ping intervals set and not yet cleared
  unackedPings          \* pings sent on the current socket since its last pong

lifecycleVars == <<shutdownRequested, exitTimer, pingIntervals, unackedPings>>

VARIABLES
  sockets,              \* sockets created by connectWebSocket and not yet closed
  timers,               \* reconnect timers set by attemptReconnect and not yet fired
  errored               \* the current socket has emitted "error"

transportVars == <<sockets, timers, errored>>

connectorVars ==
  <<maxAttempts, reconnectAttempts, ws, timer, subscribed, exitCode, delays,
    unsubscribedReconnects, lifecycleVars, transportVars>>

VARIABLES
  clock,                \* Date.now() as index.js reads it
  lastTradeTime,        \* index.js: let lastTradeTime
  isTrading,            \* index.js: let isTrading
  calls,                \* placeOrder calls not yet settled: [started]
  accepted,             \* placeOrder calls that resolved: [started, completed]
  orderEvent,           \* what the last "signal" event did in index.js
  signalAction,         \* signal.action of the last "signal" event ("NONE": none yet)
  orderSide             \* the side of the last placeOrder call ("NONE": none yet)

orderVars ==
  <<clock, lastTradeTime, isTrading, calls, accepted, orderEvent, signalAction,
    orderSide>>

VARIABLES
  tickClock,            \* Date.now() as the tick aggregator reads it
  isFirstData,          \* strategy.js 612
  currentCandle,        \* strategy.js 410: the bar in progress
  tickPriceHistory,     \* strategy.js 405
  tickOhlcHistory,      \* strategy.js 406
  lastSignal,           \* strategy.js 407
  tickSignals,          \* signals emitted on tradingSignalEmitter
  handed,               \* openTime of every bar handed to processStrategy
  tickEvent,            \* what the last "marketData" event did
  marketData,           \* the last "marketData" event: its price and volume
  bbCall                \* how many prices the last event handed to
                        \* calculateBollingerBands (Absent: it was not called)

tickVars ==
  <<tickClock, isFirstData, currentCandle, tickPriceHistory, tickOhlcHistory,
    lastSignal, tickSignals, handed, tickEvent, marketData, bbCall>>

VARIABLES
  series                \* a bounded history under test: its capacity, every element
                        \* inserted, and the history as each module keeps it

VARIABLES
  absentKeys,           \* the keys config.js does not define
  configStatus,         \* "unloaded", "valid" after validateConfig(), "rejected"
  absentCredentials,    \* the credentials the environment does not define
  traderStatus          \* "unloaded", "loaded" after trader.js ran, "rejected"

startupVars == <<absentKeys, configStatus, absentCredentials, traderStatus>>

VARIABLE sent           \* the messages sent on the current socket, in order

wireVars == <<sent>>

VARIABLE probe          \* one call of the indicators: its inputs and what it returned

VARIABLE window         \* one call of calculateTrendLineSignal: its bars and arguments,
                        \* the two fractal flags and the result

probeVars == <<probe, window>>

VARIABLE placement      \* the last placeOrder call: its inputs, the order requests it
                        \* posted, and how it ended

traderVars == <<placement>>

peripheralVars ==
  <<orderVars, tickVars, series, startupVars, wireVars, probeVars, traderVars>>

vars == <<strategyVars, connectorVars, peripheralVars>>

Strategies == {"EMA", "COMBINED"}
Bullish == {"strongly_bullish", "moderately_bullish"}
Bearish == {"strongly_bearish", "moderately_bearish"}

(***************************************************************************)
(* Indicators (strategy.js 50-173).  ta is what the library returns on     *)
(* this bar: ta.sma, ta.stdev, ta.atr are numbers, ta.fails names the call *)
(* that throws ("none" when no call throws).                               *)
(***************************************************************************)
\* prices.slice(-n)
SliceLast(s, n) ==
  IF Len(s) <= n THEN s ELSE [i \in 1..n |-> s[Len(s) - n + i]]

NullBands == [isNull |-> TRUE, upper |-> 0, middle |-> 0, lower |-> 0]

\* calculateBollingerBands: null on short input and when the library throws.
calculateBollingerBands(prices, ta) ==
  IF Len(prices) < BB_LENGTH THEN NullBands
  ELSE IF ta.fails = "bb" THEN NullBands
  ELSE [isNull |-> FALSE,
        upper  |-> ta.sma + ta.stdev * BB_DEVIATION,
        middle |-> ta.sma,
        lower  |-> ta.sma - ta.stdev * BB_DEVIATION]

NullTrendLine == [isNull |-> TRUE, trend |-> "null"]

\* The classification of calculateTrendLine (strategy.js 153-161).
TrendLineTrend(currentPrice, bb) ==
  IF JsGt(currentPrice, bb.upper) THEN "strongly_bullish"
  ELSE IF JsLt(currentPrice, bb.lower) THEN "strongly_bearish"
  ELSE IF JsGt(currentPrice, bb.middle) THEN "moderately_bullish"
  ELSE "moderately_bearish"

\* calculateTrendLine.  swingHigh and swingLow, which the code also returns,
\* are read by nothing and are left out.
calculateTrendLine(candles, ta) ==
  IF Len(candles) < TLBB_FRACTALS_PERIOD THEN NullTrendLine
  ELSE LET bb == calculateBollingerBands(candles, ta)
       IN IF bb.isNull THEN NullTrendLine
          ELSE [isNull |-> FALSE,
                trend  |-> TrendLineTrend(candles[Len(candles)].close, bb)]

NullSupertrend == [isNull |-> TRUE, trend |-> "null", upperBand2 |-> 0, lowerBand2 |-> 0]

\* The trend of calculateSupertrend (strategy.js 100-114).  The bands are
\* (high + low) / 2 +- multiplier * atr; both sides of every comparison are
\* doubled here, so that the halves stay integers.
SupertrendTrend(currentClose, previousClose, upperBand2, lowerBand2) ==
  IF JsGt(Twice(currentClose), upperBand2) THEN "up"
  ELSE IF JsLt(Twice(currentClose), lowerBand2) THEN "down"
  ELSE IF JsGt(Twice(previousClose), upperBand2) THEN "up"
  ELSE IF JsLt(Twice(previousClose), lowerBand2) THEN "down"
  ELSE "neutral"

calculateSupertrend(candles, ta) ==
  IF Len(candles) < ST_PERIOD THEN NullSupertrend
  ELSE IF ta.fails = "atr" THEN NullSupertrend
  ELSE LET n == Len(candles)
           upperBand2 == candles[n].high + candles[n].low + 2 * ST_MULTIPLIER * ta.atr
           lowerBand2 == candles[n].high + candles[n].low - 2 * ST_MULTIPLIER * ta.atr
       IN [isNull     |-> FALSE,
           trend      |-> SupertrendTrend(candles[n].close, candles[n - 1].close,
                                          upperBand2, lowerBand2),
           upperBand2 |-> upperBand2,
           lowerBand2 |-> lowerBand2]

(***************************************************************************)
(* The indicators of the candle path called on their own (they are         *)
(* exported, strategy.js 357-363).                                         *)
(***************************************************************************)
\* A history of n bars ending with the closes c1, c2, c3.
ProbeBars(n, c1, c2, c3) ==
  [i \in 1..n |->
     [open |-> MinPrice, high |-> MaxPrice, low |-> MinPrice,
      close |-> IF i = n THEN c3 ELSE IF i = n - 1 THEN c2
                ELSE IF i = n - 2 THEN c1 ELSE MinPrice,
      volume |-> 1, timestamp |-> i]]

\* What the library returns to the call on the bars and to the call on the
\* bars without the last one.
ProbeTa == [sma : {1}, stdev : {0}, atr : 0..MaxAtr, fails : {"none", "atr"}]

NoProbe ==
  [candles |-> <<>>, ta |-> [sma |-> 1, stdev |-> 0, atr |-> 0, fails |-> "none"],
   taPrev |-> [sma |-> 1, stdev |-> 0, atr |-> 0, fails |-> "none"],
   applied |-> FALSE, st |-> NullSupertrend, stPrev |-> NullSupertrend]

InitProbe ==
  \E n \in MinProbeBars..MaxProbeBars, c1, c2, c3 \in MinPrice..MaxPrice,
     ta, taPrev \in ProbeTa :
    probe = [NoProbe EXCEPT !.candles = ProbeBars(n, c1, c2, c3),
                            !.ta = ta, !.taPrev = taPrev]

\* calculateSupertrend(bars) and calculateSupertrend(bars without the last).
ApplySupertrend ==
  /\ ~probe.applied
  /\ probe' = [probe EXCEPT
                 !.applied = TRUE,
                 !.st = calculateSupertrend(probe.candles, probe.ta),
                 !.stPrev = calculateSupertrend(
                              SubSeq(probe.candles, 1, Len(probe.candles) - 1),
                              probe.taPrev)]
  /\ UNCHANGED <<strategyVars, connectorVars, orderVars, tickVars, series, startupVars,
                 wireVars, traderVars, window>>

(***************************************************************************)
(* Signal generation (strategy.js 257-327).  Each operator gives the       *)
(* position after the bar and the action handed to emitSignal ("NONE"      *)
(* when emitSignal is not called).                                         *)
(***************************************************************************)
Decision(inPos, posType, action) ==
  [inPosition |-> inPos, positionType |-> posType, emit |-> action]

\* An entry guard that ignores the held bias.
MayEnterLongAlways(inPos, posType) == TRUE

\* The guards of the two entry branches (strategy.js 301 and 308).
MayEnterLong(inPos, posType) == ~inPos \/ posType = "short"
MayEnterShort(inPos, posType) == ~inPos \/ posType = "long"

\* The condition of the exit branch (strategy.js 314-317).
ExitCondition(tlTrend, posType) ==
  \/ tlTrend \in Bearish /\ posType = "long"
  \/ tlTrend \in Bullish /\ posType = "short"

\* An exit that clears inPosition but keeps the held side.
ExitPositionStale == [inPosition |-> FALSE, positionType |-> "long"]

\* The position the exit branch leaves (strategy.js 319-321).
ExitPosition == [inPosition |-> FALSE, positionType |-> "null"]

\* A short entry that sets inPosition and leaves positionType null.
EnterShortUntyped == [inPosition |-> TRUE, positionType |-> "null"]

\* The position the short entry branch sets (strategy.js 310-311).
EnterShort == [inPosition |-> TRUE, positionType |-> "short"]

generateCombinedSignal(tl, st, inPos, posType) ==
  IF tl.isNull \/ st.isNull THEN Decision(inPos, posType, "NONE")
  ELSE IF tl.trend \in Bullish /\ st.trend = "up"
    THEN IF MayEnterLong(inPos, posType)
           THEN Decision(TRUE, "long", "BUY")
           ELSE Decision(inPos, posType, "NONE")
  ELSE IF tl.trend \in Bearish /\ st.trend = "down"
    THEN IF MayEnterShort(inPos, posType)
           THEN Decision(EnterShort.inPosition, EnterShort.positionType, "SELL")
           ELSE Decision(inPos, posType, "NONE")
  ELSE IF ExitCondition(tl.trend, posType)
    THEN Decision(ExitPosition.inPosition, ExitPosition.positionType,
                  IF posType = "long" THEN "SELL" ELSE "BUY")
  ELSE Decision(inPos, posType, "NONE")

\* The two crossover tests of generateEMASignal (strategy.js 270 and 274),
\* and the direction of the last crossover of the series after a bar.
CrossedUp(prev, cur) == JsLt(prev.short, prev.long) /\ JsGt(cur.short, cur.long)
CrossedDown(prev, cur) == JsGt(prev.short, prev.long) /\ JsLt(cur.short, cur.long)
CrossAfter(cross, prev, cur) ==
  IF CrossedUp(prev, cur) THEN "up"
  ELSE IF CrossedDown(prev, cur) THEN "down"
  ELSE cross

\* generateEMASignal: prev and cur are the library's [short, long] pairs for
\* the previous and the current bar; the position is not touched.
generateEMASignal(prev, cur, ta, inPos, posType) ==
  IF ta.fails = "ema" THEN Decision(inPos, posType, "NONE")
  ELSE IF CrossedUp(prev, cur)
    THEN Decision(inPos, posType, "BUY")
  ELSE IF CrossedDown(prev, cur)
    THEN Decision(inPos, posType, "SELL")
  ELSE Decision(inPos, posType, "NONE")

\* generateSignal: the strategy switch (strategy.js 238-247).
generateSignal(strat, candles, ta, prevEma, curEma, inPos, posType) ==
  IF strat = "EMA" THEN generateEMASignal(prevEma, curEma, ta, inPos, posType)
  ELSE IF strat = "COMBINED"
    THEN generateCombinedSignal(calculateTrendLine(candles, ta),
                                calculateSupertrend(candles, ta), inPos, posType)
  ELSE Decision(inPos, posType, "NONE")

\* emitSignal: the signal goes to the listeners of marketDataEmitter, then to
\* those of signalEmitter.  fault is where a listener throws: "first" before
\* any delivery, "second" after the delivery through marketDataEmitter.
Signal(action, price) == [action |-> action, price |-> price]

DeliveredMd(action, fault) == action # "NONE" /\ fault # "first"
DeliveredSig(action, fault) == action # "NONE" /\ fault = "none"

(***************************************************************************)
(* The candle feed (okx-client.js 67-79) and processCandle.                *)
(***************************************************************************)
\* The largest numeric timestamp appended so far (0 before the first).
TsRef(candles) ==
  LET ts == {candles[i].timestamp : i \in 1..Len(candles)} \ {NaN}
  IN IF ts = {} THEN 0 ELSE CHOOSE t \in ts : \A u \in ts : u <= t

\* The candle frames the feed may deliver next.  confirm is the exchange's
\* flag of a completed bar (the handler does not read it); a frame without
\* the timestamp field is a malformed frame.
Malformed(candles) == Cardinality({i \in 1..Len(candles) : candles[i].timestamp = NaN})

Frames(candles) ==
  LET ref == TsRef(candles)
      absent == (IF malformedFrames /\ Malformed(candles) < MaxMalformed
                   THEN {Absent} ELSE {})
                  \cup (IF malformedFrames THEN {Undecodable} ELSE {})
  IN IF Len(candles) < WarmBars
       THEN [ts : (IF malformedFrames THEN {ref - 1, ref, ref + 1} \ {0 - 1, 0}
                                      ELSE {ref + 1}) \cup absent,
             close : {MinPrice},
             confirm : {TRUE}]
       ELSE [ts : ({ref - 1, ref, ref + 1} \ {0 - 1, 0}) \cup absent,
             close : MinPrice..MaxPrice,
             confirm : IF partialUpdates THEN BOOLEAN ELSE {TRUE}]

\* candleData as the message handler builds it (okx-client.js 69-76).
CandleData(frame) ==
  [open      |-> ParseNumber(frame.close),
   high      |-> ParseNumber(MaxPrice),
   low       |-> ParseNumber(MinPrice),
   close     |-> ParseNumber(frame.close),
   volume    |-> ParseNumber(1),
   timestamp |-> ParseNumber(frame.ts)]

\* What the library may return on a bar.
\* What the library may return on a bar: the numbers the active strategy asks
\* for, or an exception from one of its calls.
TaResults(strat) ==
  IF strat = "COMBINED"
    THEN [sma : 1..MaxPrice, stdev : 0..MaxStdev, atr : 0..MaxAtr, fails : {"none"}]
           \cup [sma : {1}, stdev : {0}, atr : {0}, fails : {"bb", "atr"}]
    ELSE [sma : {1}, stdev : {0}, atr : {0}, fails : {"none", "ema"}]

\* The last elements of ta.ema(prices, EMA_SHORT_PERIOD) and of
\* ta.ema(prices, EMA_LONG_PERIOD) (strategy.js 260-261, 266-267).
EmaPairs == [short : 1..MaxEma, long : 1..MaxEma]

\* An EMA seeded from the first close: it has as many elements as prices, so
\* the first call already finds a previous element of the long EMA.
PreviousEmaFromFirstClose(n, last) ==
  IF n > EMA_LONG_PERIOD THEN {last} ELSE EmaPairs

\* The elements before the last (strategy.js 264-265) on n prices, where last
\* is the pair of the call on the bar before.  ta.ema is seeded by the mean
\* of the first period prices and returns n - period + 1 elements: on 21
\* prices the long EMA has one element and emaLong[emaLong.length - 2] is
\* undefined, which compares like NaN; the short EMA has 13.
PreviousEma(n, last) ==
  IF n > EMA_LONG_PERIOD THEN {last} ELSE [short : 1..MaxEma, long : {NaN}]

\* Where a listener may throw inside emitSignal.
FaultPoints == IF throwingConsumer THEN {"none", "first", "second"} ELSE {"none"}

\* A full history that refuses the new element.
PushBoundedKeepOldest(history, x, cap) ==
  IF Len(history) >= cap THEN history ELSE Append(history, x)

\* ohlcHistory.push(candle) and the slice to MAX_OHLC_HISTORY.
PushBounded(history, x, cap) ==
  LET h == Append(history, x)
  IN IF Len(h) > cap THEN SliceLast(h, cap) ELSE h

Observed(outcome, candle, final, tl, st, action) ==
  [outcome |-> outcome, timestamp |-> candle.timestamp, final |-> final,
   tl |-> tl, st |-> st, emit |-> action]

\* The bar is a duplicate or out of order (strategy.js 196).
IsDuplicate(ts, last) == JsLeq(ts, last)

\* No cooldown at all.
CooldownNever(now, last) == FALSE

\* The cooldown test (index.js 69).
CooldownActive(now, last) == now - last < TRADE_COOLDOWN

\* A handler that ignores isTrading.
MayStartOrderAlways(trading) == TRUE

\* The busy test (index.js 74).
MayStartOrder(trading) == ~trading

\* A trigger price left at the empty string.
NoPx == 0 - 1

\* No placeOrder call yet.
NoPlacement ==
  [side |-> "NONE", size |-> 0, lastPrice |-> 0, posted |-> <<>>, result |-> "none",
   awaiting |-> "none", stopLoss |-> NoPx, takeProfit |-> NoPx]

\* placeOrder(symbol, side, null) up to its first await (trader.js 178-184):
\* getTradeSize has sent the balance request (71-74).
PlaceOrderCalled(side) ==
  [NoPlacement EXCEPT !.side = side, !.result = "pending", !.awaiting = "balance"]

\* The "signal" listener of index.js up to its await (index.js 64-78), for a
\* signal with this action: it runs inside emitSignal, and placeOrder is
\* called with signal.action as its side and runs to its first await.
SignalListener(action) ==
  /\ signalAction' = action
  /\ IF CooldownActive(clock, lastTradeTime)
       THEN /\ orderEvent' = "cooldown"
            /\ UNCHANGED <<isTrading, calls, orderSide, placement>>
       ELSE IF MayStartOrder(isTrading)
         THEN /\ isTrading' = TRUE
              /\ calls' = Append(calls, [started |-> clock])
              /\ orderSide' = action
              /\ placement' = PlaceOrderCalled(action)
              /\ orderEvent' = "started"
         ELSE /\ orderEvent' = "busy"
              /\ UNCHANGED <<isTrading, calls, orderSide, placement>>
  /\ UNCHANGED <<clock, lastTradeTime, accepted>>

processCandle(candle, final) ==
  IF IsDuplicate(candle.timestamp, lastCandleTimestamp)
    THEN /\ bar' = Observed("dropped", candle, TRUE, "null", "null", "NONE")
         /\ UNCHANGED <<strategy, throwingConsumer, malformedFrames, partialUpdates, priceHistory, ohlcHistory,
                        lastCandleTimestamp, inPosition, positionType, mdSignals,
                        sigSignals, emaLast, lastCross, connectorVars,
                        peripheralVars>>
    ELSE LET history == PushBounded(ohlcHistory, candle, MAX_OHLC_HISTORY)
         IN /\ lastCandleTimestamp' = candle.timestamp
            /\ ohlcHistory' = history
            /\ IF Len(history) < MinHistory
                 THEN /\ bar' = Observed("building", candle, final, "null", "null", "NONE")
                      /\ UNCHANGED <<inPosition, positionType, mdSignals, sigSignals,
                                     emaLast, lastCross, orderVars, traderVars>>
                 ELSE \E curEma \in (IF strategy = "EMA" THEN EmaPairs ELSE {emaLast}),
                         prevEma \in (IF strategy = "EMA"
                                        THEN PreviousEma(Len(history), emaLast)
                                        ELSE {emaLast}),
                         ta \in TaResults(strategy), fault \in FaultPoints :
                             LET d == generateSignal(strategy, history, ta, prevEma, curEma,
                                                     inPosition, positionType)
                                 price == history[Len(history)].close
                                 tl == IF strategy = "COMBINED"
                                         THEN calculateTrendLine(history, ta).trend ELSE "null"
                                 st == IF strategy = "COMBINED"
                                         THEN calculateSupertrend(history, ta).trend ELSE "null"
                             IN /\ inPosition' = d.inPosition
                                /\ positionType' = d.positionType
                                /\ mdSignals' = IF DeliveredMd(d.emit, fault)
                                                  THEN Append(mdSignals, Signal(d.emit, price))
                                                  ELSE mdSignals
                                /\ sigSignals' = IF DeliveredSig(d.emit, fault)
                                                   THEN Append(sigSignals, Signal(d.emit, price))
                                                   ELSE sigSignals
                                /\ IF DeliveredMd(d.emit, fault)
                                     THEN SignalListener(d.emit)
                                     ELSE UNCHANGED <<orderVars, traderVars>>
                                /\ emaLast' = curEma
                                /\ lastCross' = CrossAfter(lastCross, prevEma, curEma)
                                /\ bar' = Observed("processed", candle, final, tl, st, d.emit)
            /\ UNCHANGED <<strategy, throwingConsumer, malformedFrames, partialUpdates, priceHistory,
                           connectorVars, tickVars, series, startupVars, wireVars,
                           probeVars>>

\* ws.on("message"), candle branch: every candle frame is handed to
\* processCandle through the "candle" event.
BarLimit ==
  IF malformedFrames THEN MaxMalformedBars
  ELSE IF throwingConsumer THEN MaxFaultBars
  ELSE IF strategy = "COMBINED" THEN MaxCombinedBars
  ELSE MaxBars

NoBar ==
  [outcome |-> "none", timestamp |-> 0, final |-> TRUE, tl |-> "null", st |-> "null",
   emit |-> "NONE"]

\* JSON.parse throws on a frame that is not JSON: the catch logs it and nothing
\* is emitted (okx-client.js 42, 81-83).
DiscardFrame ==
  /\ bar' = [NoBar EXCEPT !.outcome = "discarded", !.timestamp = Undecodable]
  /\ UNCHANGED <<strategy, throwingConsumer, malformedFrames, partialUpdates, priceHistory, ohlcHistory,
                 lastCandleTimestamp, inPosition, positionType, mdSignals,
                 sigSignals, emaLast, lastCross, connectorVars, peripheralVars>>

OnCandleFrame ==
  /\ Len(ohlcHistory) < BarLimit
  /\ \E frame \in Frames(ohlcHistory) :
       IF frame.ts = Undecodable
         THEN DiscardFrame
         ELSE processCandle(CandleData(frame), frame.confirm)

\* The prices of the ticks examined.
TickPrices == {MinPrice}

\* handleMarketData, the listener of "marketData" (strategy.js 179-187, 353):
\* the tick is pushed on priceHistory, which is cut to MAX_PRICE_HISTORY.
handleMarketData ==
  /\ Len(priceHistory) < MaxPriceTicks
  /\ \E price \in TickPrices :
       priceHistory' = PushBounded(priceHistory, price, MAX_PRICE_HISTORY)
  /\ UNCHANGED <<strategy, throwingConsumer, malformedFrames, partialUpdates,
                 ohlcHistory, lastCandleTimestamp, inPosition, positionType, mdSignals,
                 sigSignals, emaLast, lastCross, bar, connectorVars, peripheralVars>>

InitStrategy(strategies, throwing, malformed, partial) ==
  /\ strategy \in strategies
  /\ throwingConsumer = throwing
  /\ malformedFrames = malformed
  /\ partialUpdates = partial
  /\ priceHistory = <<>>
  /\ ohlcHistory = <<>>
  /\ lastCandleTimestamp = 0
  /\ inPosition = FALSE
  /\ positionType = "null"
  /\ mdSignals = <<>>
  /\ sigSignals = <<>>
  /\ emaLast = [short |-> NaN, long |-> NaN]
  /\ lastCross = "none"
  /\ bar = NoBar

(***************************************************************************)
(* The connector (okx-client.js 11-121).                                   *)
(***************************************************************************)
Channels == {"tickers", "candle"}

\* config.TRADING_PAIR and config.TIMEFRAME.
TRADING_PAIR == "BTC-USDT-SWAP"
TIMEFRAME == "4h"

RECURSIVE Pow(_, _)
Pow(b, e) == IF e <= 0 THEN 1 ELSE b * Pow(b, e - 1)

\* Delays are kept in units of 1 / DelayScale ms, so that the powers of 1.5
\* stay integers for every attempt up to MAX_RECONNECT_ATTEMPTS.
DelayScale == Pow(RECONNECT_MULTIPLIER_DEN, MAX_RECONNECT_ATTEMPTS - 1)

\* Math.pow(config.RECONNECT_MULTIPLIER, e), times DelayScale.
ScaledPowMultiplier(e) ==
  Pow(RECONNECT_MULTIPLIER_NUM, e) * Pow(RECONNECT_MULTIPLIER_DEN, MAX_RECONNECT_ATTEMPTS - 1 - e)

\* The exponent counted from the attempt number itself.
BackoffExponentOffByOne(attempts) == attempts

\* The exponent of the backoff (okx-client.js 114).
BackoffExponent(attempts) == attempts - 1

\* delay = INITIAL_RECONNECT_DELAY * Math.pow(RECONNECT_MULTIPLIER, attempts - 1)
ReconnectDelay(attempts) ==
  INITIAL_RECONNECT_DELAY * ScaledPowMultiplier(BackoffExponent(attempts))

NoTimer == [pending |-> FALSE, delay |-> 0, late |-> FALSE]

\* The attempts are exhausted (okx-client.js 106).
Exhausted(attempts, max) == attempts >= max

\* connectWebSocket: a new socket, connecting, and one more ping interval
\* (okx-client.js 96); the interval is not cleared with the socket it was set
\* for.
ConnectWebSocket ==
  /\ pingIntervals < MaxPingIntervals
  /\ ws' = "CONNECTING"
  /\ subscribed' = {}
  /\ pingIntervals' = pingIntervals + 1
  /\ unackedPings' = 0
  /\ sent' = <<>>
  /\ sockets' = sockets + 1
  /\ errored' = FALSE

\* index.js calls connectWebSocket() once at startup, after its require of
\* ./strategy has run validateConfig() and its require of ./trader has found
\* the credentials (index.js 4, 5, 45).
Start ==
  /\ exitCode = "running"
  /\ configStatus = "valid"
  /\ traderStatus = "loaded"
  /\ ws = "none"
  /\ ConnectWebSocket
  /\ UNCHANGED <<timers, maxAttempts, reconnectAttempts, timer, exitCode, delays,
                 unsubscribedReconnects, shutdownRequested, exitTimer, strategyVars,
                 orderVars, tickVars, series, startupVars, probeVars, traderVars>>

\* The counter after ws.on("open") (okx-client.js 16).
AttemptsAfterOpen(attempts) == 0

\* A subscribe request (okx-client.js 19-31).
SubscribeMsg(channel) ==
  [op |-> "subscribe", args |-> <<[channel |-> channel, instId |-> TRADING_PAIR]>>]

\* Only the ticker channel is requested.
SubscribeRequestsTickerOnly == <<SubscribeMsg("tickers")>>

\* The requests of ws.on("open"), in the order of the two ws.send calls
\* (okx-client.js 33-34).
SubscribeRequests == <<SubscribeMsg("tickers"), SubscribeMsg("candle" \o TIMEFRAME)>>

\* ws.on("open"): the counter is reset and the two subscribe requests are sent.
WsOpen ==
  /\ exitCode = "running"
  /\ ws = "CONNECTING"
  /\ ws' = "OPEN"
  /\ reconnectAttempts' = AttemptsAfterOpen(reconnectAttempts)
  /\ delays' = <<>>
  /\ sent' = sent \o SubscribeRequests
  /\ UNCHANGED <<transportVars, maxAttempts, timer, subscribed, exitCode, unsubscribedReconnects,
                 lifecycleVars, strategyVars, orderVars, tickVars, series, startupVars, probeVars, traderVars>>

\* ws.on("message") with event "subscribe": the confirmation is logged.
SubscribeAck ==
  /\ exitCode = "running"
  /\ ws = "OPEN"
  /\ \E ch \in Channels \ subscribed :
       /\ subscribed' = subscribed \cup {ch}
       /\ unsubscribedReconnects' =
            IF subscribed \cup {ch} = Channels THEN 0 ELSE unsubscribedReconnects
  /\ UNCHANGED <<transportVars, maxAttempts, reconnectAttempts, ws, timer, exitCode, delays,
                 lifecycleVars, strategyVars, peripheralVars>>

\* attemptReconnect (okx-client.js 105-121): process.exit(1) when the attempts
\* are exhausted, otherwise one more attempt and one more timer.
attemptReconnect ==
  IF Exhausted(reconnectAttempts, maxAttempts)
    THEN /\ exitCode' = "1"
         /\ UNCHANGED <<reconnectAttempts, timer, delays, unsubscribedReconnects, timers>>
    ELSE /\ unsubscribedReconnects < MaxUnsubscribedReconnects
         /\ reconnectAttempts' = reconnectAttempts + 1
         /\ timer' = [pending |-> TRUE, delay |-> ReconnectDelay(reconnectAttempts + 1),
                       late |-> shutdownRequested]
         /\ timers' = timers + 1
         /\ delays' = Append(delays, ReconnectDelay(reconnectAttempts + 1))
         /\ unsubscribedReconnects' = unsubscribedReconnects + 1
         /\ UNCHANGED exitCode

\* An "error" handler that reconnects as well.
ErrorReconnectsToo == TRUE

\* Whether ws.on("error") calls attemptReconnect: it only logs (okx-client.js
\* 86-88).
ErrorReconnects == FALSE

\* The socket fails, while connecting or when open: it starts closing and
\* emits "error"; its "close" follows.
WsError ==
  /\ exitCode = "running"
  /\ ws \in {"CONNECTING", "OPEN"}
  /\ ws' = "CLOSING"
  /\ errored' = TRUE
  /\ IF ErrorReconnects
       THEN attemptReconnect
       ELSE UNCHANGED <<reconnectAttempts, timer, delays, unsubscribedReconnects,
                        timers, exitCode>>
  /\ UNCHANGED <<sockets, maxAttempts, subscribed, lifecycleVars, strategyVars,
                 peripheralVars>>

\* ws.on("close") -> attemptReconnect, for a socket that was open, that
\* failed, or that gracefulShutdown closed.
WsClose ==
  /\ exitCode = "running"
  /\ ws \in {"CONNECTING", "OPEN", "CLOSING"}
  /\ ws' = "CLOSED"
  /\ sockets' = sockets - 1
  /\ attemptReconnect
  /\ UNCHANGED <<errored, maxAttempts, subscribed, lifecycleVars, strategyVars,
                 peripheralVars>>

\* The reconnect timer fires: connectWebSocket().
\* A timer set after gracefulShutdown set its exit timer fires before it only
\* if its delay is shorter.
TimerFires ==
  /\ exitCode = "running"
  /\ timer.pending
  /\ timer.late => timer.delay < SHUTDOWN_EXIT_DELAY * DelayScale
  /\ timer' = NoTimer
  /\ timers' = timers - 1
  /\ ConnectWebSocket
  /\ UNCHANGED <<maxAttempts, reconnectAttempts, exitCode, delays,
                 unsubscribedReconnects, shutdownRequested, exitTimer, strategyVars,
                 orderVars, tickVars, series, startupVars, probeVars, traderVars>>

\* One tick of a ping interval (okx-client.js 96-102): a ping on the current
\* socket when it is open, otherwise the interval clears itself.
PingTick ==
  /\ exitCode = "running"
  /\ pingIntervals > 0
  /\ IF ws = "OPEN"
       THEN /\ unackedPings < MaxUnackedPings
            /\ unackedPings' = unackedPings + 1
            /\ UNCHANGED pingIntervals
       ELSE /\ pingIntervals' = pingIntervals - 1
            /\ UNCHANGED unackedPings
  /\ UNCHANGED <<transportVars, maxAttempts, reconnectAttempts, ws, timer, subscribed, exitCode, delays,
                 unsubscribedReconnects, shutdownRequested, exitTimer, strategyVars, peripheralVars>>

\* The peer's pong arrives; no handler of the connector listens to it.
Pong ==
  /\ exitCode = "running"
  /\ ws = "OPEN"
  /\ unackedPings > 0
  /\ unackedPings' = 0
  /\ UNCHANGED <<transportVars, maxAttempts, reconnectAttempts, ws, timer, subscribed, exitCode, delays,
                 unsubscribedReconnects, shutdownRequested, exitTimer, pingIntervals,
                 strategyVars, peripheralVars>>

\* The socket after gracefulShutdown (okx-client.js 130-132): close() is
\* called only on an open socket, and starts the closing handshake.
SocketAfterShutdown(state) == IF state = "OPEN" THEN "CLOSING" ELSE state

\* SIGINT / SIGTERM -> gracefulShutdown (okx-client.js 127-138), as often as
\* a signal arrives.  A signal handler runs from the event loop, so not before
\* the main script has loaded the modules and initBot() has called
\* connectWebSocket() (index.js 45, before its first await).
GracefulShutdown ==
  /\ exitCode = "running"
  /\ ws # "none"
  /\ shutdownRequested' = TRUE
  /\ ws' = SocketAfterShutdown(ws)
  /\ exitTimer' = TRUE
  /\ UNCHANGED <<transportVars, maxAttempts, reconnectAttempts, timer, subscribed, exitCode, delays,
                 unsubscribedReconnects, pingIntervals, unackedPings, strategyVars, peripheralVars>>

\* The exit timer of gracefulShutdown fires: process.exit(0).
ExitTimerFires ==
  /\ exitCode = "running"
  /\ exitTimer
  /\ exitTimer' = FALSE
  /\ exitCode' = "0"
  /\ UNCHANGED <<transportVars, maxAttempts, reconnectAttempts, ws, timer, subscribed, delays,
                 unsubscribedReconnects, shutdownRequested, pingIntervals, unackedPings,
                 strategyVars, peripheralVars>>

InitConnector(maxima) ==
  /\ maxAttempts \in maxima
  /\ reconnectAttempts = 0
  /\ ws = "none"
  /\ timer = NoTimer
  /\ subscribed = {}
  /\ exitCode = "running"
  /\ delays = <<>>
  /\ unsubscribedReconnects = 0
  /\ shutdownRequested = FALSE
  /\ exitTimer = FALSE
  /\ pingIntervals = 0
  /\ unackedPings = 0
  /\ sockets = 0
  /\ timers = 0
  /\ errored = FALSE

NextConnector ==
  \/ Start \/ WsOpen \/ SubscribeAck \/ WsError \/ WsClose \/ TimerFires
  \/ PingTick \/ Pong \/ GracefulShutdown \/ ExitTimerFires

(***************************************************************************)
(* The order handler (index.js): the listener of "signal" on               *)
(* marketDataEmitter.                                                       *)
(***************************************************************************)
\* Date.now() at startup, far from lastTradeTime = 0.
ClockStart == TRADE_COOLDOWN * 2

\* Time between two events of the handler: just short of the cooldown, or the
\* cooldown.
ClockSteps == {TRADE_COOLDOWN - 1, TRADE_COOLDOWN}

\* Time passes.
ClockAdvances ==
  /\ exitCode = "running"
  /\ \E d \in ClockSteps :
       /\ clock + d <= ClockStart + TRADE_COOLDOWN * MaxCooldowns
       /\ clock' = clock + d
  /\ UNCHANGED <<lastTradeTime, isTrading, calls, accepted, orderEvent,
                 signalAction, orderSide, strategyVars, connectorVars, tickVars, series, startupVars, wireVars, probeVars, traderVars>>

\* The actions a signal carries (strategy.js 303, 310, 320).
SignalActions == {"BUY", "SELL"}

\* A "signal" event on marketDataEmitter, whoever emitted it.
HandleSignal(action) ==
  /\ exitCode = "running"
  /\ SignalListener(action)
  /\ UNCHANGED <<connectorVars, tickVars, series, startupVars, wireVars, probeVars>>

\* A "signal" event on marketDataEmitter.
OnSignal ==
  /\ \E action \in SignalActions : HandleSignal(action)
  /\ UNCHANGED strategyVars

\* The trends the two indicators report to generateCombinedSignal (strategy.js
\* 151-161 and 100-113).
TlTrends == Bullish \cup Bearish
StTrends == {"up", "down", "neutral"}

\* A bar on which generateCombinedSignal publishes a signal (strategy.js
\* 299-323): the bias is set, then emitSignal (334-347) delivers the signal
\* on marketDataEmitter, which runs the listener of index.js synchronously up
\* to its await, and on signalEmitter.  The bar closes at MinPrice.
OnBarPublishes ==
  /\ Len(mdSignals) < MaxPublished
  /\ \E tlTrend \in TlTrends, stTrend \in StTrends, price \in {MinPrice} :
       LET d == generateCombinedSignal([isNull |-> FALSE, trend |-> tlTrend],
                                       [isNull |-> FALSE, trend |-> stTrend],
                                       inPosition, positionType)
       IN /\ d.emit # "NONE"
          /\ inPosition' = d.inPosition
          /\ positionType' = d.positionType
          /\ mdSignals' = Append(mdSignals, Signal(d.emit, price))
          /\ sigSignals' = Append(sigSignals, Signal(d.emit, price))
          /\ HandleSignal(d.emit)
  /\ UNCHANGED <<strategy, throwingConsumer, malformedFrames, partialUpdates, priceHistory,
                 ohlcHistory, lastCandleTimestamp, emaLast, lastCross, bar>>

\* A placeOrder promise settles and the listener resumes (index.js 79-84):
\* lastTradeTime is set when it resolved, isTrading is cleared either way.
\* A listener that clears isTrading only after a call that resolved.
TradingAfterSettleNoFinally(resolved) == ~resolved

\* isTrading after the try statement: the finally block clears it (index.js
\* 82-84).
TradingAfterSettle(resolved) == FALSE

Settle(i, resolved) ==
  /\ calls' = SubSeq(calls, 1, i - 1) \o SubSeq(calls, i + 1, Len(calls))
  /\ IF resolved
       THEN /\ lastTradeTime' = clock
            /\ accepted' = Append(accepted, [started |-> calls[i].started,
                                             completed |-> clock])
       ELSE UNCHANGED <<lastTradeTime, accepted>>
  /\ isTrading' = TradingAfterSettle(resolved)
  /\ orderEvent' = "settled"

InitOrders ==
  /\ clock = ClockStart
  /\ lastTradeTime = 0
  /\ isTrading = FALSE
  /\ calls = <<>>
  /\ accepted = <<>>
  /\ orderEvent = "none"
  /\ signalAction = "NONE"
  /\ orderSide = "NONE"

(***************************************************************************)
(* placeOrder (trader.js 178-318).  Prices are in thousandths of the quote  *)
(* currency; a toFixed(2) string is kept as its number of hundredths.      *)
(***************************************************************************)
\* x.toFixed(2), in hundredths, for the double x that the code computed for
\* the fraction num / den: the hundredth nearest to x.  x differs from
\* num / den by the rounding errors of the double arithmetic, which decides
\* the result only when num / den lies exactly between two hundredths: the
\* lower one when x is below num / den, the upper one otherwise.
ToFixed2(num, den, below) ==
  LET halfUp == (200 * num + den) \div (2 * den)
      tie == (200 * num) % (2 * den) = den
  IN IF tie /\ below THEN halfUp - 1 ELSE halfUp

PosSide(side) == IF side = "BUY" THEN "long" ELSE "short"
CloseSide(side) == IF side = "BUY" THEN "sell" ELSE "buy"
EntrySide(side) == IF side = "BUY" THEN "buy" ELSE "sell"

\* lastPrice * (1 -+ slPercent) and lastPrice * (1 +- tpPercent) as fractions
\* of the quote currency, for lastPrice in thousandths.
StopLossNum(side, lastPrice) ==
  IF side = "BUY"
    THEN lastPrice * (100 * STOP_LOSS_PERCENTAGE_DEN - STOP_LOSS_PERCENTAGE_NUM)
    ELSE lastPrice * (100 * STOP_LOSS_PERCENTAGE_DEN + STOP_LOSS_PERCENTAGE_NUM)
StopLossDen == 1000 * 100 * STOP_LOSS_PERCENTAGE_DEN

TakeProfitNum(side, lastPrice) ==
  IF side = "BUY"
    THEN lastPrice * (100 + TAKE_PROFIT_PERCENTAGE)
    ELSE lastPrice * (100 - TAKE_PROFIT_PERCENTAGE)
TakeProfitDen == 1000 * 100

\* The last prices up to 52.000 whose level lies exactly between two
\* hundredths and for which the IEEE 754 double of lastPrice * (1 - slPercent),
\* lastPrice * (1 + slPercent), lastPrice * (1 + tpPercent) and
\* lastPrice * (1 - tpPercent) (trader.js 207-218, with slPercent = 1.5 / 100
\* and tpPercent = 3 / 100) lies below the exact product.
StopLossBelow(side) ==
  IF side = "BUY"
    THEN {1000, 5000, 7000, 11000, 13000, 19000, 21000, 27000, 39000, 41000,
          43000, 51000}
    ELSE {1000, 3000, 5000, 7000, 9000, 11000, 13000, 15000, 17000, 19000,
          21000, 23000, 25000, 27000, 29000, 31000, 33000, 35000, 37000, 39000,
          41000, 43000, 45000, 47000, 49000, 51000}
TakeProfitBelow(side) ==
  IF side = "BUY"
    THEN {1500, 3500, 4500, 10500, 15500, 18500, 21500, 24500, 27500, 30500,
          35500, 36500, 42500, 43500, 48500, 49500}
    ELSE {500, 2500, 5500, 6500, 7500, 8500, 9500, 11500, 13500, 14500, 16500,
          17500, 19500, 20500, 22500, 23500, 25500, 26500, 28500, 29500, 31500,
          32500, 33500, 34500, 38500, 39500, 40500, 41500, 44500, 45500, 46500,
          47500, 50500, 51500}

\* trader.js 212-214 and 216-218.
StopLoss(side, lastPrice) ==
  ToFixed2(StopLossNum(side, lastPrice), StopLossDen,
           lastPrice \in StopLossBelow(side))
TakeProfit(side, lastPrice) ==
  ToFixed2(TakeProfitNum(side, lastPrice), TakeProfitDen,
           lastPrice \in TakeProfitBelow(side))

\* The bodies of the three requests (trader.js 226-234, 255-267, 280-292).
OrderBody(side, size) ==
  [ordType |-> "market", side |-> EntrySide(side), posSide |-> PosSide(side),
   sz |-> size, slTriggerPx |-> NoPx, tpTriggerPx |-> NoPx]
SlOrderBody(side, size, stopLoss) ==
  [ordType |-> "conditional", side |-> CloseSide(side), posSide |-> PosSide(side),
   sz |-> size, slTriggerPx |-> stopLoss, tpTriggerPx |-> NoPx]
TpOrderBody(side, size, takeProfit) ==
  [ordType |-> "conditional", side |-> CloseSide(side), posSide |-> PosSide(side),
   sz |-> size, slTriggerPx |-> NoPx, tpTriggerPx |-> takeProfit]

\* The last prices examined: below and around one hundredth, two whose
\* levels lie exactly between two hundredths, and two larger.
OrderPrices == (1..MaxOrderPrice) \cup {1000, 1500, 2400, 50000}

\* placeOrder after the answer to the request it awaits (trader.js 182-318).
\* getTradeSize (64-121) asks for the balance and, when it got one, for the
\* price; whatever the answers, it returns a size.  setLeverage (130-168)
\* never throws.  A failed ticker request, entry order, stop-loss order or
\* take-profit order throws out of placeOrder, leaving posted what the
\* exchange accepted before it.
Answered(p, ok, size, lastPrice) ==
  CASE p.awaiting = "balance" ->
         IF ok THEN [p EXCEPT !.awaiting = "price"]
               ELSE [p EXCEPT !.size = size, !.awaiting = "leverage"]
    [] p.awaiting = "price" -> [p EXCEPT !.size = size, !.awaiting = "leverage"]
    [] p.awaiting = "leverage" -> [p EXCEPT !.awaiting = "ticker"]
    [] ~ok -> [p EXCEPT !.result = "thrown", !.awaiting = "none"]
    [] p.awaiting = "ticker" ->
         [p EXCEPT !.lastPrice = lastPrice,
                   !.stopLoss = StopLoss(p.side, lastPrice),
                   !.takeProfit = TakeProfit(p.side, lastPrice),
                   !.awaiting = "order"]
    [] p.awaiting = "order" ->
         [p EXCEPT !.posted = Append(p.posted, OrderBody(p.side, p.size)),
                   !.awaiting = "sl"]
    [] p.awaiting = "sl" ->
         [p EXCEPT !.posted = Append(p.posted, SlOrderBody(p.side, p.size, p.stopLoss)),
                   !.awaiting = "tp"]
    [] OTHER ->
         [p EXCEPT !.posted = Append(p.posted, TpOrderBody(p.side, p.size, p.takeProfit)),
                   !.result = "returned", !.awaiting = "none"]

\* placeOrder(symbol, side, null) is called, by whatever caller, and runs to
\* its first await.
placeOrder ==
  /\ placement.result # "pending"
  /\ \E side \in {"BUY", "SELL"} : placement' = PlaceOrderCalled(side)
  /\ UNCHANGED <<strategyVars, connectorVars, orderVars, tickVars, series,
                 startupVars, wireVars, probeVars>>

\* The request that call awaits is answered, and the call runs to its next
\* await, to its return or to its throw.
placeOrderResumes ==
  /\ placement.result = "pending"
  /\ \E ok \in BOOLEAN, size \in 1..MaxOrderSize, lastPrice \in OrderPrices :
       placement' = Answered(placement, ok, size, lastPrice)
  /\ UNCHANGED <<strategyVars, connectorVars, orderVars, tickVars, series,
                 startupVars, wireVars, probeVars>>

NextTrader == placeOrder \/ placeOrderResumes

\* The last price of the calls the listener of index.js makes; their size
\* is 1.
ExecutionPrices == {2400}

\* A request of the call the listener of index.js awaits is answered and the
\* call goes on to its next request: the listener stays suspended at index.js
\* 78.
RequestAnswered ==
  /\ exitCode = "running"
  /\ placement.result = "pending"
  /\ \E ok \in BOOLEAN, size \in {1}, lastPrice \in ExecutionPrices :
       LET p == Answered(placement, ok, size, lastPrice)
       IN /\ p.result = "pending"
          /\ placement' = p
  /\ UNCHANGED <<orderVars, strategyVars, connectorVars, tickVars, series,
                 startupVars, wireVars, probeVars>>

\* The answer that ends the call: placeOrder returns or throws and the
\* listener resumes (index.js 78-84); the call resolves when it returned and
\* rejects when it threw.
PlaceOrderSettles ==
  /\ exitCode = "running"
  /\ placement.result = "pending"
  /\ Len(calls) >= 1
  /\ \E ok \in BOOLEAN, size \in {1}, lastPrice \in ExecutionPrices :
       LET p == Answered(placement, ok, size, lastPrice)
       IN /\ p.result # "pending"
          /\ placement' = p
          /\ Settle(Len(calls), p.result = "returned")
  /\ UNCHANGED <<clock, signalAction, orderSide, strategyVars, connectorVars,
                 tickVars, series, startupVars, wireVars, probeVars>>

\* The listener and its placeOrder calls in the running process: the socket
\* is opened at startup, and a termination signal may end the process between
\* any two answers.
NextExecution ==
  \/ Start \/ ClockAdvances \/ OnSignal \/ RequestAnswered \/ PlaceOrderSettles
  \/ GracefulShutdown \/ ExitTimerFires

NextTrading == ClockAdvances \/ OnBarPublishes \/ RequestAnswered \/ PlaceOrderSettles

(***************************************************************************)
(* The tick-aggregation module (strategy.js 365-668): bars are built from  *)
(* ticker updates and handed to processStrategy when their interval ends.  *)
(***************************************************************************)
\* TIMEFRAME_MS for CONFIG.timeframe = "30m".
TIMEFRAME_MS == 30 * 60 * 1000

CONFIG_strategy == "COMBINED"

\* The capacities of the two histories of processStrategy.
TickPriceCap == Max2(emaLongPeriod, bbLength) + 1
TickOhlcCap == Max2(stPeriod, tlbbFractalsPeriod) + 1

\* push, then shift when the capacity is exceeded.
PushShift(history, x, cap) ==
  LET pushed == Append(history, x)
  IN IF Len(pushed) > cap THEN Tail(pushed) ELSE pushed

\* Math.floor(currentTime / TIMEFRAME_MS) * TIMEFRAME_MS
TimeframeBoundary(currentTime) == (currentTime \div TIMEFRAME_MS) * TIMEFRAME_MS

NewCandle(price, openTime) ==
  [open |-> price, high |-> price, low |-> price, close |-> price,
   openTime |-> openTime, volume |-> 0]

UpdatedCandle(candle, price) ==
  [candle EXCEPT !.high = Max2(candle.high, price),
                 !.low = IF candle.low < price THEN candle.low ELSE price,
                 !.close = price,
                 !.volume = candle.volume + 1]

isCandleComplete(candle, currentTime) == currentTime >= candle.openTime + TIMEFRAME_MS

\* The trend of calculateSupertrend of the tick module: the bands of the
\* previous candle, doubled, against its close; atr is the library's SMA of
\* the true ranges.
TickSupertrendTrend(ohlcData, atr) ==
  IF Len(ohlcData) < stPeriod + 1 THEN 1
  ELSE LET prevCandle == ohlcData[Len(ohlcData) - 1]
           hl2Prev2 == prevCandle.high + prevCandle.low
           prevUp2 == hl2Prev2 - 2 * stMultiplier * atr
           prevDown2 == hl2Prev2 + 2 * stMultiplier * atr
       IN IF 2 * prevCandle.close > prevDown2 THEN 1
          ELSE IF 2 * prevCandle.close < prevUp2 THEN 0 - 1
          ELSE 1

\* Math.floor(fractalsPeriod / 2), as an index from 1.
FractalMid(fractalsPeriod) == (fractalsPeriod \div 2) + 1

\* A test that lets a bar of equal high pass.
RefutesHighOnlyAbove(midHigh, otherHigh) == midHigh < otherHigh

\* The tests of the loop (strategy.js 498, 499): another bar at least as high
\* (as low) clears the flag.
RefutesHigh(midHigh, otherHigh) == midHigh <= otherHigh
RefutesLow(midLow, otherLow) == midLow >= otherLow

\* The loop over the window (strategy.js 496-500), from index i on.
RECURSIVE FractalScan(_, _, _, _)
FractalScan(last, mid, i, flags) ==
  IF i > Len(last) THEN flags
  ELSE IF i = mid THEN FractalScan(last, mid, i + 1, flags)
  ELSE FractalScan(last, mid, i + 1,
         [high |-> IF RefutesHigh(last[mid].high, last[i].high) THEN FALSE ELSE flags.high,
          low  |-> IF RefutesLow(last[mid].low, last[i].low) THEN FALSE ELSE flags.low])

\* calculateTrendLineSignal: the middle bar of the last fractalsPeriod bars
\* as a fractal, and the price against it and the Bollinger bands.
calculateTrendLineSignal(ohlcData, price, prevPrice, ta) ==
  IF Len(ohlcData) < tlbbFractalsPeriod THEN [buy |-> FALSE, sell |-> FALSE]
  ELSE LET last == SliceLast(ohlcData, tlbbFractalsPeriod)
           mid == FractalMid(tlbbFractalsPeriod)
           flags == FractalScan(last, mid, 1, [high |-> TRUE, low |-> TRUE])
           isHighFractal == flags.high
           isLowFractal == flags.low
           upper == ta.basis + bbDeviation * ta.sd
           lower == ta.basis - bbDeviation * ta.sd
       IN [buy |-> isLowFractal /\ prevPrice < last[mid].low /\ price > last[mid].low
                     /\ price > lower,
           sell |-> isHighFractal /\ prevPrice > last[mid].high /\ price < last[mid].high
                      /\ price < upper]

\* The signal of processStrategy for the histories after the push (strategy.js
\* 540-591): "WAIT" stands for the early return, "THROW" for an exception of
\* the library.
TickSignal(prices, ohlc, candle, ta) ==
  IF CONFIG_strategy = "EMA"
    THEN IF Len(prices) < emaLongPeriod THEN "WAIT"
         ELSE IF ta.fails = "ema" THEN "THROW"
         ELSE IF ta.emaShort > ta.emaLong THEN "BUY"
         ELSE IF ta.emaShort < ta.emaLong THEN "SELL"
         ELSE "HOLD"
  ELSE IF Len(ohlc) < Max2(stPeriod, tlbbFractalsPeriod) + 1 THEN "WAIT"
  ELSE IF ta.fails \in {"atr", "bb"} THEN "THROW"
  ELSE LET trend == TickSupertrendTrend(ohlc, ta.atr)
           before == TickSupertrendTrend(SubSeq(ohlc, 1, Len(ohlc) - 1), ta.atrPrev)
           stBuySignal == trend = 1 /\ Len(ohlc) > 1 /\ before = 0 - 1
           stSellSignal == trend = 0 - 1 /\ Len(ohlc) > 1 /\ before = 1
           prevPrice == IF Len(prices) > 1 THEN prices[Len(prices) - 1] ELSE candle.close
           tlbb == calculateTrendLineSignal(ohlc, candle.close, prevPrice, ta)
       IN IF tlbb.buy /\ stBuySignal THEN "BUY"
          ELSE IF tlbb.sell /\ stSellSignal THEN "SELL"
          ELSE "HOLD"

\* The number of prices processStrategy hands to calculateBollingerBands
\* (strategy.js 506-510, reached from 569 after the two Supertrend calls):
\* one close per bar of the history, with no test of the length.
BollingerInput(ohlc, ta) ==
  IF CONFIG_strategy # "COMBINED" THEN Absent
  ELSE IF Len(ohlc) < Max2(stPeriod, tlbbFractalsPeriod) + 1 THEN Absent
  ELSE IF ta.fails = "atr" THEN Absent
  ELSE IF Len(ohlc) < tlbbFractalsPeriod THEN Absent
  ELSE Len(ohlc)

\* What the library returns to processStrategy for one bar.
TickTaResults ==
  [atr : 0..MaxAtr, atrPrev : 0..MaxAtr, basis : MinPrice..MaxPrice, sd : 0..MaxStdev,
   emaShort : {1}, emaLong : {1}, fails : {"none"}]
  \cup [atr : {0}, atrPrev : {0}, basis : {MinPrice}, sd : {0},
        emaShort : {1}, emaLong : {1}, fails : {"atr", "bb"}]

\* The ticks the feed may deliver next: the price, and the time since the
\* last tick.
Ticks ==
  IF Len(handed) < WarmTickBars
    THEN [price : {MinPrice}, volume : {1}, elapsed : {TIMEFRAME_MS}]
    ELSE [price : MinPrice..MaxPrice, volume : 1..MaxTickVolume,
          elapsed : {TIMEFRAME_MS \div 3}]
           \cup [price : MinPrice..MaxPrice, volume : {1},
                 elapsed : {TIMEFRAME_MS, 2 * TIMEFRAME_MS}]

\* processStrategy(completedCandle) as a step: both histories are pushed
\* first; an exception of the library leaves the function before lastSignal
\* is touched.
processStrategy(completedCandle, ta, signal) ==
  /\ tickPriceHistory' = PushShift(tickPriceHistory, completedCandle.close, TickPriceCap)
  /\ tickOhlcHistory' = PushShift(tickOhlcHistory, completedCandle, TickOhlcCap)
  /\ handed' = Append(handed, completedCandle.openTime)
  /\ IF signal \in {"WAIT", "THROW"} \/ signal = lastSignal
       THEN UNCHANGED <<lastSignal, tickSignals>>
       ELSE /\ lastSignal' = signal
            /\ tickSignals' = Append(tickSignals, [type |-> signal,
                                                   price |-> completedCandle.close])

\* The "marketData" listener (strategy.js 614-665). An exception of
\* processStrategy leaves the listener before the new candle is opened; it is
\* caught by the message handler of the connector (okx-client.js 81).
OnMarketData ==
  /\ Len(handed) < MaxTickBars
  /\ \E tick \in Ticks :
       LET currentTime == tickClock + tick.elapsed
       IN /\ tickClock' = currentTime
          /\ marketData' = [price |-> tick.price, volume |-> tick.volume]
          /\ IF isFirstData
               THEN /\ currentCandle' = NewCandle(tick.price, TimeframeBoundary(currentTime))
                    /\ isFirstData' = FALSE
                    /\ tickEvent' = "seeded"
                    /\ bbCall' = Absent
                    /\ UNCHANGED <<tickPriceHistory, tickOhlcHistory, lastSignal,
                                   tickSignals, handed>>
               ELSE IF isCandleComplete(currentCandle, currentTime)
                 THEN \E ta \in TickTaResults :
                        LET signal == TickSignal(
                                        PushShift(tickPriceHistory, currentCandle.close,
                                                  TickPriceCap),
                                        PushShift(tickOhlcHistory, currentCandle,
                                                  TickOhlcCap),
                                        currentCandle, ta)
                        IN /\ processStrategy(currentCandle, ta, signal)
                           /\ bbCall' = BollingerInput(
                                           PushShift(tickOhlcHistory, currentCandle,
                                                     TickOhlcCap), ta)
                           /\ IF signal = "THROW"
                                THEN /\ tickEvent' = "fault"
                                     /\ UNCHANGED currentCandle
                                ELSE /\ tickEvent' = "closed"
                                     /\ currentCandle' =
                                          NewCandle(tick.price,
                                                    currentCandle.openTime + TIMEFRAME_MS)
                           /\ UNCHANGED isFirstData
                 ELSE /\ currentCandle' = UpdatedCandle(currentCandle, tick.price)
                      /\ tickEvent' = "updated"
                      /\ bbCall' = Absent
                      /\ UNCHANGED <<isFirstData, tickPriceHistory, tickOhlcHistory,
                                     lastSignal, tickSignals, handed>>
  /\ UNCHANGED <<strategyVars, connectorVars, orderVars, series, startupVars, wireVars, probeVars, traderVars>>

\* Date.now() when the module is loaded, inside a timeframe interval.
TickClockStart == 2 * TIMEFRAME_MS + TIMEFRAME_MS \div 3

NoCandle == NewCandle(0, 0)

InitTicks ==
  /\ tickClock = TickClockStart
  /\ isFirstData = TRUE
  /\ currentCandle = NoCandle
  /\ tickPriceHistory = <<>>
  /\ tickOhlcHistory = <<>>
  /\ lastSignal = "HOLD"
  /\ tickSignals = <<>>
  /\ handed = <<>>
  /\ tickEvent = "none"
  /\ marketData = [price |-> 0, volume |-> 0]
  /\ bbCall = Absent

(***************************************************************************)
(* calculateTrendLineSignal called on its own, on windows whose middle bar *)
(* and one other bar vary.                                                 *)
(***************************************************************************)
\* The highs and lows examined, low <= high.
Ranges == {r \in [high : MinPrice..MaxPrice, low : MinPrice..MaxPrice] : r.low <= r.high}

\* The bars of a window apart from the two that vary.
PlainBar == [open |-> 2, high |-> 2, low |-> 2, close |-> 2, openTime |-> 0, volume |-> 0]

\* n bars; counted from the end, the bar in the middle of the last
\* fractalsPeriod has the range midRange and the bar k places before the last
\* the range otherRange.
WindowBars(n, midRange, k, otherRange) ==
  [i \in 1..n |->
     IF i = n - (tlbbFractalsPeriod - FractalMid(tlbbFractalsPeriod))
       THEN [PlainBar EXCEPT !.high = midRange.high, !.low = midRange.low]
     ELSE IF i = n - k
       THEN [PlainBar EXCEPT !.high = otherRange.high, !.low = otherRange.low]
     ELSE PlainBar]

\* Where the second varying bar sits, counted back from the last bar: inside
\* the window on both sides of the middle, and just before the window.
OtherPlaces == {0, 6, 8, 14, 15}

NoWindow ==
  [ohlcData |-> <<>>, price |-> 0, prevPrice |-> 0, applied |-> FALSE,
   isHighFractal |-> FALSE, isLowFractal |-> FALSE, buy |-> FALSE, sell |-> FALSE,
   after |-> <<>>]

\* The library's Bollinger values for the call.
WindowTa ==
  [atr |-> 0, atrPrev |-> 0, basis |-> 2, sd |-> 0, emaShort |-> 1, emaLong |-> 1,
   fails |-> "none"]

InitWindow ==
  \E n \in MinWindowBars..MaxWindowBars, midRange, otherRange \in Ranges,
     k \in OtherPlaces, price, prevPrice \in MinPrice..MaxPrice :
    window = [NoWindow EXCEPT !.ohlcData = WindowBars(n, midRange, k, otherRange),
                              !.price = price, !.prevPrice = prevPrice]

\* calculateTrendLineSignal(ohlcData, price, prevPrice, fractalsPeriod); the
\* flags are those of its loop, the bars are read through slice and map only.
ApplyTrendLineSignal ==
  /\ ~window.applied
  /\ LET last == SliceLast(window.ohlcData, tlbbFractalsPeriod)
         flags == IF Len(window.ohlcData) < tlbbFractalsPeriod
                    THEN [high |-> FALSE, low |-> FALSE]
                    ELSE FractalScan(last, FractalMid(tlbbFractalsPeriod), 1,
                                     [high |-> TRUE, low |-> TRUE])
         result == calculateTrendLineSignal(window.ohlcData, window.price,
                                            window.prevPrice, WindowTa)
     IN window' = [window EXCEPT !.applied = TRUE,
                                 !.isHighFractal = flags.high,
                                 !.isLowFractal = flags.low,
                                 !.buy = result.buy,
                                 !.sell = result.sell,
                                 !.after = window.ohlcData]
  /\ UNCHANGED <<strategyVars, connectorVars, orderVars, tickVars, series, startupVars,
                 wireVars, traderVars, probe>>

(***************************************************************************)
(* The bounded histories: handleMarketData and processCandle push and      *)
(* slice, processStrategy pushes and shifts.                               *)
(***************************************************************************)
InsertIntoHistories ==
  /\ Len(series.inserted) < MaxInserts
  /\ \E x \in 1..MaxItem :
       series' = [series EXCEPT
                    !.inserted = Append(@, x),
                    !.sliced = PushBounded(@, x, series.capacity),
                    !.shifted = PushShift(@, x, series.capacity)]
  /\ UNCHANGED <<strategyVars, connectorVars, orderVars, tickVars, startupVars, wireVars, probeVars, traderVars>>

InitSeries(capacities) ==
  series \in [capacity : capacities, inserted : {<<>>}, sliced : {<<>>}, shifted : {<<>>}]

\* The modules are loaded: config.js as shipped has passed validateConfig().
InitLoaded ==
  /\ absentKeys = {}
  /\ configStatus = "valid"
  /\ absentCredentials = {}
  /\ traderStatus = "loaded"
  /\ sent = <<>>
  /\ probe = NoProbe
  /\ window = NoWindow
  /\ placement = NoPlacement

InitPeripheral ==
  InitOrders /\ InitTicks /\ InitSeries({MAX_OHLC_HISTORY}) /\ InitLoaded

NextHistories == InsertIntoHistories

NextTicks == OnMarketData

\* The program as wired by index.js, on a feed of completed, well-formed bars.
Init ==
  /\ InitStrategy(Strategies, FALSE, FALSE, FALSE)
  /\ InitConnector({MAX_RECONNECT_ATTEMPTS})
  /\ InitPeripheral

Next == OnCandleFrame

Spec == Init /\ [][Next]_vars

\* The same program with a "signal" listener that may throw.
InitFault ==
  /\ InitStrategy({"COMBINED"}, TRUE, FALSE, FALSE)
  /\ InitConnector({MAX_RECONNECT_ATTEMPTS})
  /\ InitPeripheral

SpecFault == InitFault /\ [][Next]_vars

\* The Combined strategy on both channels of the feed, ticks and candles.
InitFeed ==
  /\ InitStrategy({"COMBINED"}, FALSE, FALSE, FALSE)
  /\ InitConnector({MAX_RECONNECT_ATTEMPTS})
  /\ InitPeripheral

NextFeed == OnCandleFrame \/ handleMarketData

SpecFeed == InitFeed /\ [][NextFeed]_vars

\* The same program on a feed that may deliver malformed candle frames.
InitMalformed ==
  /\ InitStrategy({"COMBINED"}, FALSE, TRUE, FALSE)
  /\ InitConnector({MAX_RECONNECT_ATTEMPTS})
  /\ InitPeripheral

SpecMalformed == InitMalformed /\ [][Next]_vars

\* The same program on a feed that pushes every update of the bar in progress.
InitUpdates ==
  /\ InitStrategy({"COMBINED"}, FALSE, FALSE, TRUE)
  /\ InitConnector({MAX_RECONNECT_ATTEMPTS})
  /\ InitPeripheral

SpecUpdates == InitUpdates /\ [][Next]_vars

\* The connector alone, with maxAttempts as shipped and as in the backoff
\* scenario.
InitConnection ==
  /\ InitStrategy({"COMBINED"}, FALSE, FALSE, FALSE)
  /\ InitConnector({ScenarioMaxAttempts, MAX_RECONNECT_ATTEMPTS})
  /\ InitPeripheral

SpecConnector == InitConnection /\ [][NextConnector]_vars

\* The order handler alone.
InitOrderHandler ==
  /\ InitStrategy({"COMBINED"}, FALSE, FALSE, FALSE)
  /\ InitConnector({MAX_RECONNECT_ATTEMPTS})
  /\ InitPeripheral

\* The order handler with the placeOrder calls it makes.
SpecExecution == InitOrderHandler /\ [][NextExecution]_vars

\* The Combined strategy's signals and the order handler together.
SpecTrading == InitOrderHandler /\ [][NextTrading]_vars

\* The bounded histories alone, for small capacities.
InitHistories ==
  /\ InitStrategy({"COMBINED"}, FALSE, FALSE, FALSE)
  /\ InitConnector({MAX_RECONNECT_ATTEMPTS})
  /\ InitOrders
  /\ InitTicks
  /\ InitSeries(1..MaxCapacity)
  /\ InitLoaded

SpecHistories == InitHistories /\ [][NextHistories]_vars

\* The tick-aggregation module alone.
SpecTicks == InitOrderHandler /\ [][NextTicks]_vars

(***************************************************************************)
(* Startup: the require of ./strategy runs validateConfig() before         *)
(* initBot() connects (strategy.js 26-41, 350; index.js 4, 45).            *)
(***************************************************************************)
requiredConfigs ==
  {"TRADING_PAIR", "TRADE_SIZE", "TRADE_COOLDOWN", "STRATEGY", "TIMEFRAME",
   "EMA_SHORT_PERIOD", "EMA_LONG_PERIOD", "TLBB_FRACTALS_PERIOD", "BB_LENGTH",
   "BB_DEVIATION", "ST_PERIOD", "ST_MULTIPLIER"}

\* The configurations examined: complete, without a required key, without a
\* key that validateConfig does not list.
AbsentKeySets == {{}, {"STRATEGY"}, {"LEVERAGE"}}

\* The values of config.STRATEGY examined; "undefined" is the absent key.
ConfiguredStrategies == Strategies \cup {"MACD", "undefined"}

\* requiredConfigs.filter(key => typeof config[key] === "undefined")
missingConfigs(absent) == {key \in requiredConfigs : key \in absent}

\* validateConfig() returns normally.
ConfigAccepted(absent, strat) == missingConfigs(absent) = {}

\* validateConfig() when the candle-path module is loaded (strategy.js 1-363;
\* the file holds a second module, the tick aggregator, from line 365 on, and
\* each is followed as the module it is); its throw is not caught by anything,
\* so the process ends with code 1 before index.js reaches initBot().
validateConfig ==
  /\ configStatus = "unloaded"
  /\ IF ConfigAccepted(absentKeys, strategy)
       THEN /\ configStatus' = "valid"
            /\ UNCHANGED exitCode
       ELSE /\ configStatus' = "rejected"
            /\ exitCode' = "1"
  /\ UNCHANGED <<absentCredentials, traderStatus, transportVars, absentKeys, maxAttempts, reconnectAttempts, ws, timer, subscribed,
                 delays, unsubscribedReconnects, lifecycleVars, strategyVars,
                 orderVars, tickVars, series, wireVars, probeVars, traderVars>>

\* The credentials trader.js reads from the environment (trader.js 6-8), and
\* the environments examined: complete, and without the passphrase.
CredentialKeys == {"OKX_API_KEY", "OKX_SECRET_KEY", "OKX_PASSPHRASE"}
AbsentCredentialSets == {{}, {"OKX_PASSPHRASE"}}

\* The test of trader.js 11 passes.
CredentialsPresent(absent) == absent \cap CredentialKeys = {}

\* require("./trader") (index.js 5, after ./strategy): the module body calls
\* process.exit(1) when a credential is missing (trader.js 11-15).
loadTrader ==
  /\ exitCode = "running"
  /\ configStatus = "valid"
  /\ traderStatus = "unloaded"
  /\ IF CredentialsPresent(absentCredentials)
       THEN /\ traderStatus' = "loaded"
            /\ UNCHANGED exitCode
       ELSE /\ traderStatus' = "rejected"
            /\ exitCode' = "1"
  /\ UNCHANGED <<absentKeys, configStatus, absentCredentials, transportVars,
                 maxAttempts, reconnectAttempts, ws, timer, subscribed, delays,
                 unsubscribedReconnects, lifecycleVars, strategyVars, orderVars,
                 tickVars, series, wireVars, probeVars, traderVars>>

\* A candle frame arriving on the open connection.
OnFrameAfterStartup ==
  /\ ws = "OPEN"
  /\ exitCode = "running"
  /\ Len(ohlcHistory) < MaxStartupBars
  /\ OnCandleFrame

InitStartup ==
  /\ InitStrategy(ConfiguredStrategies, FALSE, FALSE, FALSE)
  /\ InitConnector({MAX_RECONNECT_ATTEMPTS})
  /\ InitOrders
  /\ InitTicks
  /\ InitSeries({MAX_OHLC_HISTORY})
  /\ absentKeys \in AbsentKeySets
  /\ ("STRATEGY" \in absentKeys) <=> (strategy = "undefined")
  /\ configStatus = "unloaded"
  /\ absentCredentials \in AbsentCredentialSets
  /\ traderStatus = "unloaded"
  /\ sent = <<>>
  /\ probe = NoProbe
  /\ window = NoWindow
  /\ placement = NoPlacement

NextStartup ==
  validateConfig \/ loadTrader \/ Start \/ WsOpen \/ SubscribeAck \/ OnFrameAfterStartup

SpecStartup == InitStartup /\ [][NextStartup]_vars

\* The indicators alone.
InitIndicators ==
  /\ InitStrategy({"COMBINED"}, FALSE, FALSE, FALSE)
  /\ InitConnector({MAX_RECONNECT_ATTEMPTS})
  /\ InitOrders
  /\ InitTicks
  /\ InitSeries({MAX_OHLC_HISTORY})
  /\ absentKeys = {}
  /\ configStatus = "valid"
  /\ absentCredentials = {}
  /\ traderStatus = "loaded"
  /\ sent = <<>>
  /\ InitProbe
  /\ window = NoWindow
  /\ placement = NoPlacement

NextIndicators == ApplySupertrend

SpecIndicators == InitIndicators /\ [][NextIndicators]_vars

\* placeOrder alone.
SpecTrader == InitOrderHandler /\ [][NextTrader]_vars

\* calculateTrendLineSignal alone.
InitFractals ==
  /\ InitStrategy({"COMBINED"}, FALSE, FALSE, FALSE)
  /\ InitConnector({MAX_RECONNECT_ATTEMPTS})
  /\ InitOrders
  /\ InitTicks
  /\ InitSeries({MAX_OHLC_HISTORY})
  /\ absentKeys = {}
  /\ configStatus = "valid"
  /\ absentCredentials = {}
  /\ traderStatus = "loaded"
  /\ sent = <<>>
  /\ probe = NoProbe
  /\ placement = NoPlacement
  /\ InitWindow

NextFractals == ApplyTrendLineSignal

SpecFractals == InitFractals /\ [][NextFractals]_vars

\* The whole life of the process without the feed: module load, then the
\* connector until process.exit.
NextProcess == validateConfig \/ loadTrader \/ NextConnector

SpecProcess == InitStartup /\ [][NextProcess]_vars

(***************************************************************************)
(* Properties.                                                             *)
(***************************************************************************)
Last(s) == s[Len(s)]

\* The step handled a bar that reached signal generation under strat.
Processed(strat) == bar'.outcome = "processed" /\ strategy = strat

\* The step delivered exactly the signal with this action to the listeners of
\* marketDataEmitter.
Published(action) ==
  /\ Len(mdSignals') = Len(mdSignals) + 1
  /\ Last(mdSignals').action = action
  /\ SubSeq(mdSignals', 1, Len(mdSignals)) = mdSignals

PublishedNothing == mdSignals' = mdSignals /\ sigSignals' = sigSignals

\* C1: in the candle path of the Combined strategy a signal is published only
\* when its action differs from the previously published action, so no two
\* consecutively published signals carry the same action.
C1_NoRepeatedAction ==
  strategy = "COMBINED" =>
    \A i \in 1..(Len(mdSignals) - 1) : mdSignals[i].action # mdSignals[i + 1].action

\* C2: in the EMA strategy, once a BUY has been published no further BUY is
\* published until a SELL has been published or a reverse (downward)
\* crossover has occurred; symmetrically for SELL.
C2_NoRepeatWithoutReverseCross ==
  [][(/\ strategy = "EMA"
      /\ Len(mdSignals) > 0
      /\ Len(mdSignals') = Len(mdSignals) + 1
      /\ Last(mdSignals').action = Last(mdSignals).action)
     => lastCross = (IF Last(mdSignals).action = "BUY" THEN "down" ELSE "up")]_vars

\* The bar runs against the held bias: LONG with a bearish trend line, or
\* SHORT with a bullish one, with a Supertrend value computed.
AgainstLong == Processed("COMBINED") /\ positionType = "long" /\ bar'.tl \in Bearish
                 /\ bar'.st # "null"
AgainstShort == Processed("COMBINED") /\ positionType = "short" /\ bar'.tl \in Bullish
                  /\ bar'.st # "null"

\* C3 as claimed: on every bar where the bias is LONG and the trend line is
\* bearish (SHORT and bullish), the opposite-side exit signal is published and
\* the bias becomes FLAT, for every value of the Supertrend trend.
C3_ExitToFlatAlways ==
  [][/\ AgainstLong => Published("SELL") /\ positionType' = "null" /\ ~inPosition'
     /\ AgainstShort => Published("BUY") /\ positionType' = "null" /\ ~inPosition']_vars

\* C3 as amended: on every such bar the opposite-side signal is published;
\* the bias becomes FLAT unless the Supertrend confirms the opposite
\* direction ("down" against LONG, "up" against SHORT), and then it becomes
\* the opposite bias.
C3_ExitOrReverse ==
  [][/\ AgainstLong =>
          /\ Published("SELL")
          /\ bar'.st # "down" => positionType' = "null" /\ ~inPosition'
          /\ bar'.st = "down" => positionType' = "short" /\ inPosition'
     /\ AgainstShort =>
          /\ Published("BUY")
          /\ bar'.st # "up" => positionType' = "null" /\ ~inPosition'
          /\ bar'.st = "up" => positionType' = "long" /\ inPosition']_vars

\* The scenario of C3: BUY and LONG on an "up" / bullish bar, then SELL and
\* FLAT on an "up" / strongly_bearish bar.
C3_Witness ==
  /\ strategy = "COMBINED"
  /\ bar.outcome = "processed" /\ bar.st = "up" /\ bar.tl = "strongly_bearish"
  /\ bar.emit = "SELL"
  /\ Len(mdSignals) = 2 /\ mdSignals[1].action = "BUY" /\ mdSignals[2].action = "SELL"
  /\ positionType = "null" /\ ~inPosition

\* C4: on every bar with Supertrend "up" and a bullish trend line, exactly one
\* BUY is published and the bias becomes LONG when it was not LONG, and nothing
\* is published and the bias is unchanged when it was LONG; symmetrically for
\* Supertrend "down", a bearish trend line, SELL and SHORT.
C4_EntryOncePerBias ==
  [][/\ (Processed("COMBINED") /\ bar'.st = "up" /\ bar'.tl \in Bullish) =>
          IF positionType # "long"
            THEN Published("BUY") /\ positionType' = "long" /\ inPosition'
            ELSE PublishedNothing /\ UNCHANGED <<inPosition, positionType>>
     /\ (Processed("COMBINED") /\ bar'.st = "down" /\ bar'.tl \in Bearish) =>
          IF positionType # "short"
            THEN Published("SELL") /\ positionType' = "short" /\ inPosition'
            ELSE PublishedNothing /\ UNCHANGED <<inPosition, positionType>>]_vars

\* A second "up" / bullish bar arrived while LONG: one BUY in all.
C4_Witness ==
  /\ strategy = "COMBINED"
  /\ bar.outcome = "processed" /\ bar.st = "up" /\ bar.tl \in Bullish
  /\ bar.emit = "NONE"
  /\ positionType = "long" /\ inPosition
  /\ Len(mdSignals) = 1 /\ mdSignals[1].action = "BUY"

\* C5: on every processed bar the bias changes if and only if exactly one
\* signal is published during that bar, also when a listener throws inside
\* emitSignal.
C5_BiasChangesOnlyWithPublishedSignal ==
  [][Processed("COMBINED") =>
       ((<<inPosition, positionType>>' # <<inPosition, positionType>>)
          <=> Len(mdSignals') = Len(mdSignals) + 1)]_vars

\* C6: the bar history is in strictly increasing timestamp order.
C6_HistoryStrictlyIncreasing ==
  \A i, j \in 1..Len(ohlcHistory) :
    (i < j /\ ohlcHistory[i].timestamp # NaN /\ ohlcHistory[j].timestamp # NaN)
      => ohlcHistory[i].timestamp < ohlcHistory[j].timestamp

\* C7: the strategy runs only on a bar's final values; an update of the bar
\* in progress is never appended to the history nor used to decide a signal.
C7_OnlyCompletedBarsUsed ==
  bar.outcome \in {"building", "processed"} => bar.final

\* C8: at most maxAttempts reconnects are ever scheduled without a confirmed
\* subscription in between.
C8_BoundedReconnectsWithoutSubscription ==
  unsubscribedReconnects <= maxAttempts

\* The delays of the backoff scenario, in ms.
ScenarioDelays == <<1000, 1500, 2250>>

\* C9: the k-th consecutive disconnect (no connection opened in between)
\* schedules the reconnect after initialDelay * multiplier^(k-1), for k up to
\* maxAttempts, and the next one is fatal; with 1000 ms, 1.5 and 3 attempts the
\* delays are 1000, 1500, 2250 ms.
C9_BackoffDelays ==
  /\ Len(delays) <= maxAttempts
  /\ Len(delays) = reconnectAttempts
  /\ Len(delays) > 0 => delays[1] = INITIAL_RECONNECT_DELAY * DelayScale
  /\ \A k \in 1..(Len(delays) - 1) :
       delays[k + 1] * RECONNECT_MULTIPLIER_DEN = delays[k] * RECONNECT_MULTIPLIER_NUM
  /\ timer.pending => Len(delays) > 0 /\ timer.delay = Last(delays)
  /\ exitCode = "1" => Len(delays) = maxAttempts /\ ~timer.pending
  /\ \A k \in 1..Len(delays) :
       k <= Len(ScenarioDelays) => delays[k] = ScenarioDelays[k] * DelayScale

\* Three failed attempts after 1000, 1500 and 2250 ms, and with maxAttempts = 3
\* the fourth disconnect was fatal.
C9_Witness ==
  /\ maxAttempts = ScenarioMaxAttempts
  /\ exitCode = "1"
  /\ Len(delays) >= 3
  /\ SubSeq(delays, 1, 3) = <<1000 * DelayScale, 1500 * DelayScale, 2250 * DelayScale>>

\* C10: the attempt counter is reset only by a successful re-subscription; a
\* connection that opens and is closed before its subscriptions are confirmed
\* does not reset it.
C10_ResetOnlyOnSubscription ==
  [][(reconnectAttempts # 0 /\ reconnectAttempts' = 0)
       => (subscribed' = Channels /\ subscribed # Channels)]_vars

\* C11: after a shutdown request, in any connector state, the transport is
\* closed (or closing), the pending reconnect timer is cancelled, and from
\* then on no connection attempt is started and no reconnect timer is set.
C11_ShutdownStopsConnector ==
  [][/\ (~shutdownRequested /\ shutdownRequested') =>
          ws' \notin {"CONNECTING", "OPEN"} /\ ~timer'.pending
     /\ shutdownRequested =>
          /\ ws' = "CONNECTING" => ws = "CONNECTING"
          /\ ws' # "OPEN"
          /\ timer'.pending => timer.pending]_vars

\* C12: when a ping interval ticks on an open connection whose previous ping
\* was not acknowledged, the connector handles it as a disconnect: the socket
\* is closed and a reconnect is scheduled, or the process exits.
C12_UnackedPingDisconnects ==
  [][(ws = "OPEN" /\ unackedPings > 0 /\ unackedPings' = unackedPings + 1)
       => (ws' = "CLOSED" /\ (timer'.pending \/ exitCode' = "1"))]_vars

\* C13: at most one placeOrder call is in flight at any time; a signal that
\* arrives while a call is unsettled starts no second call.
C13_OneOrderInFlight ==
  /\ Len(calls) <= 1
  /\ isTrading <=> Len(calls) = 1

\* A signal arrived while a call was in flight, and was skipped.
C13_Witness == orderEvent = "busy" /\ Len(calls) = 1 /\ isTrading

\* C14: every placeOrder call, in flight or resolved, was started at least
\* TRADE_COOLDOWN ms after every call that resolved before it started; a
\* signal within the cooldown of the last accepted trade starts no call.
C14_CooldownBetweenTrades ==
  /\ \A i, j \in 1..Len(accepted) :
       i < j => accepted[j].started >= accepted[i].completed + TRADE_COOLDOWN
  /\ \A i \in 1..Len(accepted), c \in 1..Len(calls) :
       calls[c].started >= accepted[i].completed + TRADE_COOLDOWN
  /\ lastTradeTime <= clock
  /\ Len(accepted) > 0 => lastTradeTime = accepted[Len(accepted)].completed

\* Two trades were accepted and a signal inside the cooldown of the second
\* was skipped.
C14_Witness ==
  /\ Len(accepted) = 2
  /\ orderEvent = "cooldown"
  /\ clock - lastTradeTime = TRADE_COOLDOWN - 1

\* C15: the tick aggregator never hands two completed bars with the same
\* openTime to processStrategy, completed bars have strictly increasing
\* openTime, and every openTime, of a completed bar or of the bar in
\* progress, is an exact multiple of the timeframe.
C15_TickBarsUniqueAndAligned ==
  /\ \A i, j \in 1..Len(handed) : i < j => handed[i] < handed[j]
  /\ \A i \in 1..Len(handed) : handed[i] % TIMEFRAME_MS = 0
  /\ ~isFirstData => currentCandle.openTime % TIMEFRAME_MS = 0

\* C16: a tick that arrives when one or more timeframe boundaries have been
\* crossed closes exactly one bar, carrying the OHLC accumulated before the
\* tick, hands it to processStrategy once, and opens a new bar at the previous
\* openTime plus the timeframe with open = high = low = close.
C16_GapClosesOneBar ==
  [][(~isFirstData /\ tickClock' # tickClock
        /\ tickClock' >= currentCandle.openTime + TIMEFRAME_MS)
     => /\ handed' = Append(handed, currentCandle.openTime)
        /\ Last(tickOhlcHistory') = currentCandle
        /\ currentCandle'.openTime = currentCandle.openTime + TIMEFRAME_MS
        /\ currentCandle'.high = currentCandle'.open
        /\ currentCandle'.low = currentCandle'.open
        /\ currentCandle'.close = currentCandle'.open
        /\ currentCandle'.volume = 0]_vars

\* C17: every bar in the history of the candle path has a timestamp that is
\* an exact multiple of the timeframe duration (unaligned bars are rejected).
C17_HistoryAligned ==
  \A i \in 1..Len(ohlcHistory) :
    ohlcHistory[i].timestamp # NaN => ohlcHistory[i].timestamp % CANDLE_TIMEFRAME_MS = 0

\* The most recent Min(n, capacity) of the inserted elements, in order.
IsMostRecent(history, insertedAll, capacity) ==
  LET n == Len(insertedAll)
      k == IF n < capacity THEN n ELSE capacity
  IN /\ Len(history) = k
     /\ \A i \in 1..k : history[i] = insertedAll[n - k + i]

\* C18: a bounded history never exceeds its capacity and always equals the
\* most recent min(n, capacity) inserted elements in insertion order, both
\* as push-and-slice and as push-and-shift keep it.
C18_BoundedFifo ==
  /\ Len(series.sliced) <= series.capacity
  /\ Len(series.shifted) <= series.capacity
  /\ IsMostRecent(series.sliced, series.inserted, series.capacity)
  /\ IsMostRecent(series.shifted, series.inserted, series.capacity)

\* More elements than the capacity were inserted, and the oldest evicted.
C18_Witness ==
  /\ series.capacity = 2
  /\ series.inserted = <<1, 2, 1, 2>>
  /\ series.sliced = <<1, 2>>
  /\ series.shifted = <<1, 2>>

\* The bars the strategy needs before it can decide: the longest indicator
\* period, and for the EMA crossover the bar before it as well.
LongestLookback(strat) ==
  IF strat = "EMA" THEN EMA_LONG_PERIOD + 1
  ELSE Max2(BB_LENGTH, Max2(ST_PERIOD + 1, TLBB_FRACTALS_PERIOD))

C20_FaultLeavesStateConsistent ==
  /\ Len(ohlcHistory) <= MAX_OHLC_HISTORY
  /\ \A i, j \in 1..Len(ohlcHistory) :
       i < j => JsLt(ohlcHistory[i].timestamp, ohlcHistory[j].timestamp)
  /\ positionType = "long" => Len(mdSignals) > 0 /\ Last(mdSignals).action = "BUY"
  /\ positionType = "short" => Len(mdSignals) > 0 /\ Last(mdSignals).action = "SELL"
  /\ inPosition <=> positionType # "null"

\* C21: a malformed frame (not decodable, or without the timestamp field) is
\* discarded: it appends no bar, publishes no signal, and changes neither the
\* strategy state nor the connector (no reconnect, counter unchanged).
C21_MalformedFrameDiscarded ==
  [][bar'.timestamp \in {NaN, Undecodable} =>
       UNCHANGED <<ohlcHistory, lastCandleTimestamp, inPosition, positionType,
                   mdSignals, sigSignals, connectorVars>>]_vars

\* C22: a configuration with a missing required key, with a strategy outside
\* {EMA, COMBINED} or without a credential never gets as far as a connection: the socket is
\* never created and no bar is ever processed.
C22_InvalidConfigNeverConnects ==
  (\/ missingConfigs(absentKeys) # {}
   \/ strategy \notin Strategies
   \/ ~CredentialsPresent(absentCredentials))
    => (ws = "none" /\ pingIntervals = 0 /\ Len(ohlcHistory) = 0)

\* C23: a process that ends after a shutdown request ends with code 0, and a
\* process ends with code 1 only when validateConfig rejected the
\* configuration, a credential was missing, or the reconnect attempts ran out
\* with no shutdown requested.
C23_ExitCodes ==
  /\ (shutdownRequested /\ exitCode # "running") => exitCode = "0"
  /\ exitCode = "1" =>
       \/ configStatus = "rejected"
       \/ traderStatus = "rejected"
       \/ (reconnectAttempts >= maxAttempts /\ ~shutdownRequested)

\* C24: on an open connection exactly one subscribe request for the ticker
\* channel and one for the candle channel of the configured timeframe and
\* symbol have been sent, each {op: "subscribe", args: [{channel, instId}]};
\* nothing is sent while connecting.  Frames are handled on an open socket
\* only, so both requests precede every data frame of the connection.
C24_SubscribesOnEveryHandshake ==
  /\ ws = "CONNECTING" => sent = <<>>
  /\ ws = "OPEN" =>
       sent = <<[op |-> "subscribe",
                 args |-> <<[channel |-> "tickers", instId |-> "BTC-USDT-SWAP"]>>],
                [op |-> "subscribe",
                 args |-> <<[channel |-> "candle4h", instId |-> "BTC-USDT-SWAP"]>>]>>

\* A reconnect has completed its handshake and sent its two requests.
C24_Witness ==
  ws = "OPEN" /\ pingIntervals = 2 /\ Len(sent) = 2

\* C25: every signal emitSignal publishes reaches the listeners of both
\* emitters exactly once and in publication order: the bar that decided it
\* appends it to what each of them has received.
C25_EverySignalDelivered ==
  [][(bar'.outcome = "processed" /\ bar'.emit # "NONE") =>
       /\ mdSignals' = Append(mdSignals, Signal(bar'.emit, Last(ohlcHistory').close))
       /\ sigSignals' = Append(sigSignals, Signal(bar'.emit, Last(ohlcHistory').close))]_vars

\* C26: when the latest close crosses neither band (lowerBand <= close <=
\* upperBand), calculateSupertrend gives the bars the trend it gives the bars
\* without the last one.
C26_TrendStableWithoutCrossing ==
  LET close2 == Twice(Last(probe.candles).close)
  IN (/\ probe.applied
      /\ ~probe.st.isNull
      /\ ~probe.stPrev.isNull
      /\ JsLeq(probe.st.lowerBand2, close2)
      /\ JsLeq(close2, probe.st.upperBand2))
       => probe.st.trend = probe.stPrev.trend

\* C29: calculateSupertrend returns "up" for a latest close strictly above
\* the upper band, "down" for one strictly below the lower band, and never a
\* trend other than "up" and "down".
C29_TrendDirectional ==
  LET close2 == Twice(Last(probe.candles).close)
  IN (probe.applied /\ ~probe.st.isNull) =>
       /\ JsGt(close2, probe.st.upperBand2) => probe.st.trend = "up"
       /\ JsLt(close2, probe.st.lowerBand2) => probe.st.trend = "down"
       /\ probe.st.trend \in {"up", "down"}

\* C27: a tick inside the interval of the bar in progress folds into it:
\* high = max(high, price), low = min(low, price), close = price, volume =
\* volume + the tick's volume, open and openTime unchanged; the bar keeps
\* low <= open, close <= high.
C27_TickFolding ==
  [][tickEvent' = "updated" =>
       /\ currentCandle' =
            [currentCandle EXCEPT
               !.high = Max2(currentCandle.high, marketData'.price),
               !.low = IF currentCandle.low < marketData'.price
                         THEN currentCandle.low ELSE marketData'.price,
               !.close = marketData'.price,
               !.volume = currentCandle.volume + marketData'.volume]
       /\ currentCandle'.low <= currentCandle'.open
       /\ currentCandle'.low <= currentCandle'.close
       /\ currentCandle'.open <= currentCandle'.high
       /\ currentCandle'.close <= currentCandle'.high]_vars

\* C28: a placeOrder that returns has set the stop-loss and the take-profit
\* at the configured percentages from the last price (to the two decimals
\* they are sent with) and on the protective side: stopLoss < price <
\* takeProfit for a BUY, takeProfit < price < stopLoss for a SELL; both
\* conditional orders are on the side opposite to the entry, with its size.
C28_ProtectiveLevels ==
  placement.result = "returned" =>
    LET price == placement.lastPrice
        sl == placement.stopLoss
        tp == placement.takeProfit
        slError == 2 * StopLossDen * sl - 200 * StopLossNum(placement.side, price)
        tpError == 2 * TakeProfitDen * tp - 200 * TakeProfitNum(placement.side, price)
    IN /\ 0 - StopLossDen <= slError /\ slError <= StopLossDen
       /\ 0 - TakeProfitDen <= tpError /\ tpError <= TakeProfitDen
       /\ placement.side = "BUY" => (10 * sl < price /\ price < 10 * tp)
       /\ placement.side = "SELL" => (10 * tp < price /\ price < 10 * sl)
       /\ Len(placement.posted) = 3
       /\ placement.posted[2].slTriggerPx = sl
       /\ placement.posted[3].tpTriggerPx = tp
       /\ \A i \in 2..3 :
            /\ placement.posted[i].ordType = "conditional"
            /\ placement.posted[i].side # placement.posted[1].side
            /\ placement.posted[i].sz = placement.posted[1].sz

\* C30: the Bollinger Bands are never computed on fewer prices than their
\* length: whenever the tick path calls calculateBollingerBands, it hands it at
\* least bbLength prices.
C30_NoIndicatorOnShortInput ==
  bbCall # Absent => bbCall >= bbLength

\* C31: in the last fractalsPeriod bars the bar at index floor(period / 2) is
\* flagged a high fractal exactly when its high is strictly above every other
\* high of the window, a low fractal exactly when its low is strictly below
\* every other low; a tie is no fractal; the bars are as they were passed in.
C31_FractalIffStrictExtreme ==
  (window.applied /\ Len(window.ohlcData) >= tlbbFractalsPeriod) =>
    LET n == Len(window.ohlcData)
        first == n - tlbbFractalsPeriod + 1
        mid == first + (tlbbFractalsPeriod \div 2)
        others == (first..n) \ {mid}
    IN /\ window.isHighFractal <=>
            \A i \in others : window.ohlcData[mid].high > window.ohlcData[i].high
       /\ window.isLowFractal <=>
            \A i \in others : window.ohlcData[mid].low < window.ohlcData[i].low
       /\ window.after = window.ohlcData

\* A high fractal was found in a history longer than the window.
C31_Witness ==
  /\ window.applied
  /\ Len(window.ohlcData) = 16
  /\ window.isHighFractal
  /\ ~window.isLowFractal

\* C32: at most one ping interval is alive at any time.
C32_OnePingInterval ==
  pingIntervals <= 1

\* C33: whenever no placeOrder call is in flight, the side of the last
\* placeOrder call is the action of the last signal the strategy published.
C33_OrdersFollowSignals ==
  (~isTrading /\ signalAction # "NONE") => orderSide = signalAction

\* C34: when a placeOrder call whose market order the exchange accepted
\* settles, lastTradeTime is set to the time of settling.
C34_AcceptedOrderStartsCooldown ==
  [][(Len(calls') < Len(calls) /\ Len(placement'.posted) >= 1)
       => lastTradeTime' = clock']_vars

\* C35: after every tick that the listener processed to its end, the interval
\* of the bar in progress contains the current time: openTime <= now <
\* openTime + timeframe.
C35_OpenBarContainsNow ==
  (~isFirstData /\ tickEvent # "fault") =>
    /\ currentCandle.openTime <= tickClock
    /\ tickClock < currentCandle.openTime + TIMEFRAME_MS

\* C36: at most one socket is alive and at most one reconnect timer is
\* pending; the attempt counter stays within 0..maxAttempts; the close of a
\* socket, after an error or not, adds exactly one attempt and one timer
\* unless the attempts are exhausted, and the error event itself adds none.
C36_OneConnectionOneTimer ==
  [][/\ sockets' <= 1
     /\ timers' <= 1
     /\ reconnectAttempts' \in 0..maxAttempts
     /\ sockets' < sockets =>
          \/ exitCode' = "1" /\ reconnectAttempts' = reconnectAttempts /\ timers' = timers
          \/ reconnectAttempts' = reconnectAttempts + 1 /\ timers' = timers + 1
     /\ (errored' /\ ~errored) =>
          reconnectAttempts' = reconnectAttempts /\ timers' = timers]_vars

\* A socket failed with an error and its close has scheduled the second
\* reconnect in a row: one timer, no socket.
C36_Witness ==
  /\ ws = "CLOSED"
  /\ errored
  /\ sockets = 0
  /\ timers = 1
  /\ reconnectAttempts = 2

\* C37: isTrading is true exactly while a placeOrder call is unsettled; the
\* step that settles a call clears it, and leaves lastTradeTime unchanged when
\* the call rejected; a signal is skipped as busy only while a call is
\* unsettled.
C37_LockAlwaysReleased ==
  [][/\ isTrading' <=> Len(calls') = 1
     /\ Len(calls') < Len(calls) =>
          /\ ~isTrading'
          /\ placement'.result = "thrown" => lastTradeTime' = lastTradeTime
     /\ orderEvent' = "busy" => Len(calls') = 1]_vars

\* A placeOrder call rejected at its take-profit request, after a signal was
\* skipped as busy: the lock is released and no call ever resolved.
C37_Witness ==
  /\ placement.result = "thrown"
  /\ Len(placement.posted) = 2
  /\ signalAction # orderSide
  /\ orderEvent = "settled"
  /\ lastTradeTime = 0
  /\ ~isTrading
  /\ Len(calls) = 0

\* C38: inPosition is true exactly when positionType is "long" or "short"
\* (positionType is "null" exactly when flat), in every state; a tick, a
\* dropped duplicate bar and a bar on insufficient history leave both fields
\* unchanged.
C38_BiasFieldsConsistent ==
  /\ [](/\ positionType \in {"null", "long", "short"}
        /\ inPosition <=> positionType \in {"long", "short"})
  /\ [][(priceHistory' # priceHistory \/ bar'.outcome \in {"dropped", "building"})
          => (inPosition' = inPosition /\ positionType' = positionType)]_vars

\* The strategy is short, a tick has been handled and the last bar was a
\* dropped duplicate.
C38_Witness ==
  /\ inPosition
  /\ positionType = "short"
  /\ Len(priceHistory) > 0
  /\ bar.outcome = "dropped"

====
